---------------------------- MODULE Spec2Model ----------------------------
(***************************************************************************)
(* The workflow engine of social_mcp (src/mcp_client/workflow_graph.py)    *)
(* over the spreadsheet row store (src/common/google_sheets.py).           *)
(*                                                                         *)
(* One scheduler cycle calls graph.ainvoke({}) (src/mcp_client/client.py   *)
(* line 130): the nodes of build_workflow_graph run one at a time on a     *)
(* state dictionary, each node being one action of this module.  Every     *)
(* call a node makes to the outside (spreadsheet, extractor, LLM,          *)
(* platform clients) is an input of its action: whether it succeeds is     *)
(* chosen with \E.                                                         *)
(***************************************************************************)
EXTENDS Integers, Sequences, FiniteSets, TLC

(***************************************************************************)
(* Bounds of the model.                                                    *)
(***************************************************************************)
M == 2            \* batch_size of WorkflowGraph (self.M)
NRows1 == 3       \* data rows of Sheet1 (sheet rows 2 .. NRows1 + 1)
NRows2 == 1       \* data rows of Sheet2
MaxRuns == 1      \* scheduler cycles explored

\* The prompt asks the LLM for 3 tweets.
TweetsAsked == 3

(***************************************************************************)
(* Values.                                                                 *)
(***************************************************************************)
NoRow == [id |-> 0, url |-> "", sheet |-> ""]    \* no 'current_row' key
NoError == ""                                    \* no 'error' key

Min(a, b) == IF a < b THEN a ELSE b

\* str.lower() on the cell values of the model.
Lower(s) ==
    CASE s = "Pending" -> "pending"
      [] s = "PENDING" -> "pending"
      [] OTHER -> s

\* urlparse(url).scheme and .netloc for the url values of the model.
UrlScheme(u) ==
    CASE u = "https://example.com/a" -> "https"
      [] u = "mailto:someone" -> "mailto"
      [] OTHER -> ""

UrlNetloc(u) ==
    CASE u = "https://example.com/a" -> "example.com"
      [] OTHER -> ""

StatusKeywords == {"pending", "in_progress", "complete", "error"}

\* WorkflowGraph.is_valid_url
is_valid_url(url) ==
    IF Lower(url) \in StatusKeywords THEN FALSE
    ELSE UrlScheme(url) # "" /\ UrlNetloc(url) # ""

\* int(retry_count) if retry_count else 0, ValueError -> 0
ParseRetry(v) ==
    CASE v = "0" -> 0
      [] v = "1" -> 1
      [] v = "2" -> 2
      [] v = "3" -> 3
      [] OTHER -> 0        \* "" and non-numeric text

\* str(n)
Str(n) ==
    CASE n = 0 -> "0"
      [] n = 1 -> "1"
      [] n = 2 -> "2"
      [] n = 3 -> "3"
      [] OTHER -> "4"

\* Header names by column position (COLUMNS), for update_cell(row, 3 | 4, ..).
COLUMNS ==
    << "id", "url", "status", "Medium", "processing_ts", "content_ts",
       "retry_count_content", "generate_ts", "retry_count_generate", "tweets",
       "store_ts", "twitter_result", "retry_count_post_twitter", "bsky_result",
       "retry_count_post_bsky", "engage_ts", "schedule_ts",
       "retry_count_schedule", "last_update_ts" >>

Rows1 == 2 .. (NRows1 + 2)      \* the last row is the blank row below the data
Rows2 == 2 .. (NRows2 + 2)


\* The nodes in nominal order.
Nodes ==
    << "batch_retrieval", "extract_content", "post_to_telegram",
       "generate_tweets", "store_tweets", "post_to_twitter", "post_to_bsky",
       "engage_posts", "schedule_followups", "completion" >>

NodeSet == {Nodes[k] : k \in 1..Len(Nodes)}

\* Position of a node in the nominal order.
NodeIndex(n) == CHOOSE k \in 1..Len(Nodes) : Nodes[k] = n

VARIABLES
    sheet1,      \* Sheet1: row index -> [url, status, rcc (retry_count_content),
                 \*   twitter_result, rc_twitter (retry_count_post_twitter),
                 \*   bsky_result, rc_bsky (retry_count_post_bsky)]
    sheet2,      \* Sheet2: row index -> the same record (url is tele_urls)
    st,          \* the WorkflowState dictionary the engine threads through the nodes
    pc,          \* "idle", the node to run next, "END", or "raised"
    executed,    \* the nodes executed so far in this run, in order
    entry,       \* st as the last executed node received it
    writes,      \* the cells <<sheet, row, column>> the last executed node wrote
    calls,       \* the outside calls (other than spreadsheet) the last node made
    run,         \* scheduler cycles started
    retry,       \* one call of retry_with_backoff: its arguments and progress
    gen          \* one parse of an LLM response by generate_tweets_node

\* The client process (client.py) and its multi-account Twitter session manager.
VARIABLES
    running,        \* the global shutdown flag `running`
    spc,            \* where main / run_workflow stands
    cycles,         \* workflow cycles started by the loop (counted up to MaxCycles)
    exit_code,      \* the code the process exited with (NoExit while it runs)
    raising,        \* an exception is propagating out of run_workflow
    global_twitter, \* global_twitter is set to a MultiTwitterPlaywright
    close_task,     \* a close_session task created by signal_handler is pending
    close_calls,    \* close_session invocations on global_twitter (up to MaxCloses)
    mgr,            \* the MultiTwitterPlaywright: browsers, pages, _logged_in, ...
    attempt,        \* the attempt of search_and_like_tweets under way
    last,           \* the last ensure_logged_in call: its account and what it did
    stopped_at,     \* where run_workflow stood when the flag was unset ("" before)
    last_cycle      \* how the last graph.ainvoke ended: "none", "returned", "raised"

pvars == <<sheet1, sheet2, st, pc, executed, entry, writes, calls, run, retry, gen>>

cvars == <<running, spc, cycles, exit_code, raising, global_twitter, close_task,
           close_calls, mgr, attempt, last, stopped_at, last_cycle>>

\* The parts of the program that are exercised on their own.
VARIABLES
    session,     \* a MultiTwitterPlaywright and the last operation called on it
    bsky,        \* a BlueskyAPI and the last call made on it
    claim,       \* two workflow processes in batch_retrieval on one spreadsheet
    ext          \* one call of ExtractContent.extract

xvars == <<session, bsky, claim, ext>>

vars == <<pvars, cvars, xvars>>

\* graph.ainvoke({}): the empty dictionary.
EmptyState ==
    [ rows |-> <<>>, current_row |-> NoRow, text |-> FALSE, tweets |-> 0,
      error |-> NoError, engagement_only |-> FALSE, skipped |-> FALSE,
      stored |-> FALSE, posted |-> FALSE, posted_to_bsky |-> FALSE,
      posted_to_telegram |-> FALSE, engaged |-> FALSE,
      followups_scheduled |-> FALSE, end |-> FALSE ]

(***************************************************************************)
(* The spreadsheet as the operator filled it in before the process starts. *)
(***************************************************************************)
\* A spreadsheet row with url u, status s, and r in each of its retry counters.
Row(u, s, r) ==
    [url |-> u, status |-> s, rcc |-> r,
     twitter_result |-> "", rc_twitter |-> r, bsky_result |-> "", rc_bsky |-> r]

BlankRow == Row("", "", "")

FirstRows1 ==
    { Row("https://example.com/a", "Pending", "2"),
      Row("https://example.com/a", "", "many"),
      Row("example.com/a", "", ""),
      Row("pending", "Pending", "1"),
      Row("", "", ""),
      Row("https://example.com/a", "complete", "") }

SecondRows1 ==
    { Row("https://example.com/a", "", ""),
      Row("mailto:someone", "pending", ""),
      Row("https://example.com/a", "complete", "") }

ThirdRows1 ==
    { Row("https://example.com/a", "pending", ""),
      Row("https://example.com/a", "error", "1") }

FirstRows2 ==
    { Row("https://example.com/a", "PENDING", ""),
      Row("example.com/a", "pending", ""),
      Row("https://example.com/a", "", "") }

\* A row processed long ago.
DoneRow == Row("https://example.com/a", "complete", "0")

(***************************************************************************)
(* retry_with_backoff and the response parser: values.                     *)
(***************************************************************************)
\* No call of retry_with_backoff is under way.
NoRetry ==
    [max_retries |-> 0, base_delay |-> 0, fn |-> <<>>, attempt |-> 0, pc |-> "idle",
     calls |-> 0, result |-> [kind |-> "none", of |-> 0], delays |-> <<>>]

\* No LLM response is being parsed.
NoGen == [response |-> <<>>, pc |-> "idle", tweets |-> <<>>, error |-> FALSE,
          wrote |-> {}]

(***************************************************************************)
(* The client process: values.                                             *)
(***************************************************************************)
MaxCycles == 2
MaxCloses == 2
MaxLaunches == 2

NoExit == 0 - 1

\* self.accounts
Accounts == {"primary", "secondary"}

\* MultiTwitterPlaywright.__init__: no browser, context or page, nobody logged
\* in, self.playwright is None.  playwright is the account whose _init_browser
\* started the driver self.playwright refers to; closed and launches record
\* what was done to the browsers.
NewManager ==
    [browsers |-> {}, pages |-> {}, logged_in |-> {}, closed |-> {},
     launches |-> [a \in Accounts |-> 0], playwright |-> "none"]

NoCall == [account |-> "", init |-> "none", ret |-> FALSE, submitted |-> FALSE]

\* No operation has been called on a session manager.
NoSession == [mgr |-> NewManager, name |-> "none", account |-> "", trace |-> <<>>,
              ret |-> FALSE, raised |-> FALSE]

\* BlueskyAPI.__init__: no HTTP session, no token; no call made yet.  test,
\* refresh and status are what the last call met, posts the createRecord
\* requests it sent, refreshes the _refresh_session calls it made before and
\* after its first createRecord request, calls the calls made so far.
NoBsky ==
    [has_session |-> FALSE, access_jwt |-> FALSE, name |-> "none", test |-> "none",
     refresh |-> "none", status |-> 0, posts |-> 0, refreshes_before |-> 0,
     refreshes_after |-> 0, result |-> "none", calls |-> 0]

\* No workflow process is in batch_retrieval.
NoClaim == [status |-> <<>>, url |-> <<>>, proc |-> <<>>]

\* No call of ExtractContent.extract is under way.
NoExt == [pc |-> "idle", url |-> "", error |-> "none", close_raises |-> FALSE,
          candidates |-> <<>>, ret |-> 0, raised |-> FALSE]

\* The client before main() has run.
ClientAtRest ==
    /\ running = TRUE
    /\ spc = "load_config"
    /\ cycles = 0
    /\ exit_code = NoExit
    /\ raising = FALSE
    /\ global_twitter = FALSE
    /\ close_task = FALSE
    /\ close_calls = 0
    /\ mgr = NewManager
    /\ attempt = 1
    /\ last = NoCall
    /\ stopped_at = ""
    /\ last_cycle = "none"

\* No operation of the parts exercised on their own is under way.
OthersAtRest ==
    /\ session = NoSession
    /\ bsky = NoBsky
    /\ claim = NoClaim
    /\ ext = NoExt

Init ==
    /\ \E r2 \in FirstRows1, r3 \in SecondRows1, r4 \in ThirdRows1 :
         sheet1 = [i \in Rows1 |->
                     CASE i = 2 -> r2
                       [] i = 3 -> r3
                       [] i = 4 -> r4
                       [] i = NRows1 + 2 -> BlankRow
                       [] OTHER -> DoneRow]
    /\ \E r2 \in FirstRows2 :
         sheet2 = [i \in Rows2 |->
                     CASE i = 2 -> r2
                       [] i = NRows2 + 2 -> BlankRow
                       [] OTHER -> DoneRow]
    /\ st = EmptyState
    /\ pc = "idle"
    /\ executed = <<>>
    /\ entry = EmptyState
    /\ writes = {}
    /\ calls = {}
    /\ run = 0
    /\ retry = NoRetry
    /\ gen = NoGen
    /\ ClientAtRest
    /\ OthersAtRest

\* The add_edge calls with one more, from store_tweets back to generate_tweets.
EdgesWithBackEdge ==
    { <<"batch_retrieval", "extract_content">>,
      <<"extract_content", "post_to_telegram">>,
      <<"post_to_telegram", "generate_tweets">>,
      <<"generate_tweets", "store_tweets">>,
      <<"store_tweets", "post_to_twitter">>,
      <<"store_tweets", "generate_tweets">>,
      <<"post_to_twitter", "post_to_bsky">>,
      <<"post_to_bsky", "engage_posts">>,
      <<"engage_posts", "schedule_followups">>,
      <<"schedule_followups", "completion">>,
      <<"completion", "END">> }

(***************************************************************************)
(* The graph of build_workflow_graph.                                      *)
(***************************************************************************)
\* graph.add_edge(a, b)
Edges ==
    { <<"batch_retrieval", "extract_content">>,
      <<"extract_content", "post_to_telegram">>,
      <<"post_to_telegram", "generate_tweets">>,
      <<"generate_tweets", "store_tweets">>,
      <<"store_tweets", "post_to_twitter">>,
      <<"post_to_twitter", "post_to_bsky">>,
      <<"post_to_bsky", "engage_posts">>,
      <<"engage_posts", "schedule_followups">>,
      <<"schedule_followups", "completion">>,
      <<"completion", "END">> }

should_engage_only(state) == state.engagement_only

\* "error" in state
has_error(state) == state.error # NoError

\* graph.add_conditional_edges(node, {target: predicate, ...}): the targets whose
\* predicate holds of the state the node returned.
ConditionalTargets(node, state) ==
    CASE node = "batch_retrieval" ->
           IF should_engage_only(state) THEN {"engage_posts"} ELSE {"extract_content"}
      [] node \in {"extract_content", "post_to_telegram", "generate_tweets",
                   "store_tweets", "post_to_twitter", "post_to_bsky", "engage_posts"} ->
           IF has_error(state) THEN {"completion"}
           ELSE {Nodes[NodeIndex(node) + 1]}
      [] node = "schedule_followups" -> {"completion"}
      [] OTHER -> {}

\* The nodes the engine may run after `node` returned `state`.  An edge added
\* with add_edge stays in the graph when a conditional mapping is added for the
\* same node: the graph then has both, and the engine follows either.
NextNodes(node, state) ==
    {e[2] : e \in {d \in Edges : d[1] = node}} \cup ConditionalTargets(node, state)

(***************************************************************************)
(* What a node hands back: the state it returns (or that it raised), the   *)
(* sheets as it left them, the cells it wrote and the outside calls made.  *)
(***************************************************************************)
Result(state, s1, s2, w, c, raised) ==
    [state |-> state, sheet1 |-> s1, sheet2 |-> s2, writes |-> w, calls |-> c,
     raised |-> raised]

\* worksheet.update_cell(row, column, value) on the columns the model keeps.
UpdateCell(sh, row, col, value) ==
    CASE col = "status" -> [sh EXCEPT ![row].status = value]
      [] col = "retry_count_content" -> [sh EXCEPT ![row].rcc = value]
      [] col = "twitter_result" -> [sh EXCEPT ![row].twitter_result = value]
      [] col = "retry_count_post_twitter" -> [sh EXCEPT ![row].rc_twitter = value]
      [] col = "bsky_result" -> [sh EXCEPT ![row].bsky_result = value]
      [] col = "retry_count_post_bsky" -> [sh EXCEPT ![row].rc_bsky = value]
      [] OTHER -> sh

(***************************************************************************)
(* batch_retrieval                                                         *)
(***************************************************************************)
\* enumerate(records, start=2)
RowSeq(n) == [k \in 1..(n + 1) |-> k + 1]

Take(s, n) == SubSeq(s, 1, Min(n, Len(s)))

\* Sheet1: not row.get('status') or row.get('status').lower() == 'pending'
IsPending1(status) == status = "" \/ Lower(status) = "pending"

\* The Sheet2 test taking an empty status as pending, as the Sheet1 test does.
IsPending2OrEmpty(status) == status = "" \/ Lower(status) = "pending"

\* Sheet2: row.get('status', '').lower() == 'pending'
IsPending2(status) == Lower(status) = "pending"

pending_rows1(sh) == SelectSeq(RowSeq(NRows1), LAMBDA i : IsPending1(sh[i].status))

pending_rows2(sh) == SelectSeq(RowSeq(NRows2), LAMBDA i : IsPending2(sh[i].status))

\* pending_rows[:self.M]
rows_to_process(pending) == Take(pending, M)

\* What the two update_cell calls of one row do: both succeed, the first raises
\* (nothing written), or the second raises (status written, row not returned).
RowOutcomes == {"ok", "status_write_raises", "ts_write_raises"}

\* The for loop over rows_to_process (lines 105-125 and 148-169): acc is
\* [sheet, valid, writes]; oc[k] is what happens to the k-th row's writes.
RECURSIVE ClaimRows(_, _, _, _, _)
ClaimRows(acc, todo, oc, k, name) ==
    IF k > Len(todo) THEN acc
    ELSE LET i == todo[k]
             url == acc.sheet[i].url
         IN  IF url = "" \/ oc[k] = "status_write_raises"
             THEN ClaimRows(acc, todo, oc, k + 1, name)
             ELSE LET marked ==
                        [acc EXCEPT !.sheet = UpdateCell(@, i, COLUMNS[3], "in_progress"),
                                    !.writes = @ \cup {<<name, i, COLUMNS[3]>>}]
                  IN  IF oc[k] = "ts_write_raises"
                      THEN ClaimRows(marked, todo, oc, k + 1, name)
                      ELSE ClaimRows(
                             [marked EXCEPT
                                !.writes = @ \cup {<<name, i, COLUMNS[4]>>},
                                !.valid = Append(@, [id |-> i, url |-> url, sheet |-> name])],
                             todo, oc, k + 1, name)

\* batch_retrieval(state).  read1/read2: whether reading Sheet1/Sheet2 succeeds;
\* oc1/oc2: the outcome of each claimed row's writes.
BatchRetrieval(state, s1, s2, read1, read2, oc1, oc2) ==
    IF ~read1 THEN Result([state EXCEPT !.error = "sheet read failed"], s1, s2, {}, {}, FALSE)
    ELSE
    LET a1 == ClaimRows([sheet |-> s1, valid |-> <<>>, writes |-> {}],
                        rows_to_process(pending_rows1(s1)), oc1, 1, "Sheet1")
    IN  IF a1.valid # <<>>
        THEN Result([state EXCEPT !.rows = a1.valid, !.engagement_only = FALSE],
                    a1.sheet, s2, a1.writes, {}, FALSE)
        ELSE IF ~read2
        THEN Result([state EXCEPT !.error = "sheet read failed"],
                    a1.sheet, s2, a1.writes, {}, FALSE)
        ELSE
        LET a2 == ClaimRows([sheet |-> s2, valid |-> <<>>, writes |-> {}],
                            rows_to_process(pending_rows2(s2)), oc2, 1, "Sheet2")
        IN  IF a2.valid # <<>>
            THEN Result([state EXCEPT !.rows = a2.valid, !.engagement_only = FALSE],
                        a1.sheet, a2.sheet, a1.writes \cup a2.writes, {}, FALSE)
            ELSE Result([state EXCEPT !.rows = <<>>, !.engagement_only = TRUE],
                        a1.sheet, a2.sheet, a1.writes \cup a2.writes, {}, FALSE)

(***************************************************************************)
(* GoogleSheetsClient.update_row                                           *)
(***************************************************************************)
\* update_row(sheet_name, row_index, updates): one update_cell per entry of
\* updates, at sheet row row_index + 1.  okCount entries are written before a
\* spreadsheet call raises (okCount = Len(updates): none raises).
RECURSIVE update_row(_, _, _, _, _)
update_row(sh, sheet_name, row_index, updates, okCount) ==
    IF updates = <<>> \/ okCount = 0
    THEN [sheet |-> sh, writes |-> {}, raised |-> updates # <<>>]
    ELSE LET u == Head(updates)
             rest == update_row(UpdateCell(sh, row_index + 1, u[1], u[2]),
                                sheet_name, row_index, Tail(updates), okCount - 1)
         IN  [rest EXCEPT !.writes = @ \cup {<<sheet_name, row_index + 1, u[1]>>}]

\* update_row takes (sheet_name, row_index, updates): a call that passes fewer
\* positional arguments raises TypeError before anything is written.
UpdateRowAccepts(nargs) == nargs = 3

\* row.get(key, default) on a row dictionary {'id', 'url', 'sheet'}.
RowGet(row, key, default) ==
    IF key \in {"id", "url", "sheet"} THEN row[key] ELSE default

\* The writes of one node to the row `id` of a sheet: cells as <<column, value>>.
RECURSIVE WriteCells(_, _, _, _)
WriteCells(sh, name, id, cells) ==
    IF cells = <<>> THEN [sheet |-> sh, writes |-> {}]
    ELSE LET rest == WriteCells(UpdateCell(sh, id, cells[1][1], cells[1][2]),
                                name, id, Tail(cells))
         IN  [rest EXCEPT !.writes = @ \cup {<<name, id, cells[1][1]>>}]

\* The result of a node that wrote `cells` to its row and returns `state`.
Wrote(state, s1, s2, row, cells, c) ==
    IF row.sheet = "Sheet1"
    THEN LET w == WriteCells(s1, "Sheet1", row.id, cells)
         IN  Result(state, w.sheet, s2, w.writes, c, FALSE)
    ELSE LET w == WriteCells(s2, "Sheet2", row.id, cells)
         IN  Result(state, s1, w.sheet, w.writes, c, FALSE)

(***************************************************************************)
(* extract_content_node                                                    *)
(***************************************************************************)
\* extractOk: the extractor returns text within the retries; sheetOk: the
\* spreadsheet calls of the try block succeed; handlerOk: those of the except
\* block succeed (otherwise the exception leaves the node).
extract_content_node(state, s1, s2, extractOk, sheetOk, handlerOk) ==
    IF state.rows = <<>> THEN Result(state, s1, s2, {}, {}, FALSE)
    ELSE
    LET row == Head(state.rows)
        url == RowGet(row, "url", "")
        valid == is_valid_url(url)
        c == IF valid THEN {"extractor.extract"} ELSE {}
        current_retry == ParseRetry(RowGet(row, "retry_count_content", "0"))
    IN  IF valid /\ extractOk /\ sheetOk
        THEN Wrote([state EXCEPT !.current_row = row, !.text = TRUE,
                                 !.rows = Tail(state.rows)],
                   s1, s2, row,
                   IF row.sheet = "Sheet1"
                   THEN << <<"content_ts", "now">>, <<"retry_count_content", "0">> >>
                   ELSE << <<"last_update_ts", "now">> >>,
                   c)
        ELSE IF handlerOk
        THEN Wrote([state EXCEPT !.current_row = row, !.error = "extraction failed",
                                 !.rows = Tail(state.rows)],
                   s1, s2, row,
                   IF row.sheet = "Sheet1"
                   THEN << <<"status", "error">>,
                           <<"retry_count_content", Str(current_retry + 1)>>,
                           <<"content_ts", "now">> >>
                   ELSE << <<"status", "error">>, <<"error", "message">>,
                           <<"last_update_ts", "now">> >>,
                   c)
        ELSE Result(state, s1, s2, {}, c, TRUE)

(***************************************************************************)
(* post_to_telegram_node                                                   *)
(***************************************************************************)
TelegramOutcomes == {"ok", "post_fails", "sheet_unavailable", "write_raises"}

\* out = "sheet_unavailable": worksheet("Sheet2") raises, and the except block
\* then uses the unbound sheet2; "write_raises": the update_cell calls raise, in
\* the try block and again in the except block.
post_to_telegram_node(state, s1, s2, out) ==
    IF state.error # NoError THEN Result(state, s1, s2, {}, {}, FALSE)
    ELSE IF ~state.text
    THEN Result([state EXCEPT !.error = "No content available to post to Telegram"],
                s1, s2, {}, {}, FALSE)
    ELSE IF state.current_row.sheet # "Sheet2"
    THEN Result([state EXCEPT !.skipped = TRUE], s1, s2, {}, {}, FALSE)
    ELSE CASE out = "sheet_unavailable" -> Result(state, s1, s2, {}, {}, TRUE)
           [] out = "write_raises" ->
                Result(state, s1, s2, {}, {"telegram.post_to_telegram"}, TRUE)
           [] out = "post_fails" ->
                Wrote([state EXCEPT !.error = "Error posting to Telegram"],
                      s1, s2, state.current_row,
                      << <<"status", "error">>, <<"error", "message">>,
                         <<"last_update_ts", "now">> >>,
                      {"telegram.post_to_telegram"})
           [] OTHER ->
                Wrote([state EXCEPT !.posted_to_telegram = TRUE],
                      s1, s2, state.current_row,
                      << <<"status", "complete">>, <<"last_update_ts", "now">> >>,
                      {"telegram.post_to_telegram"})

(***************************************************************************)
(* generate_tweets_node, store_tweets_node                                 *)
(***************************************************************************)
\* llmOk: the LLM call returns a response; n: the number of tweets parsed from
\* the response (a JSON array of n objects, or 1 on the fallback path).
generate_tweets_node(state, s1, s2, llmOk, n, sheetOk, handlerOk) ==
    IF state.error # NoError THEN Result(state, s1, s2, {}, {}, FALSE)
    ELSE IF ~state.text
    THEN Result([state EXCEPT !.error = "No text content available for tweet generation"],
                s1, s2, {}, {}, FALSE)
    ELSE IF state.current_row.sheet # "Sheet1"
    THEN Result([state EXCEPT !.skipped = TRUE], s1, s2, {}, {}, FALSE)
    ELSE LET c == {"llm.generate_content"}
             current_retry ==
                 ParseRetry(RowGet(state.current_row, "retry_count_generate", "0"))
         IN  IF llmOk /\ sheetOk
             THEN Wrote([state EXCEPT !.tweets = n], s1, s2, state.current_row,
                        << <<"generate_ts", "now">>, <<"tweets", "json">> >>, c)
             ELSE IF handlerOk
             THEN Wrote([state EXCEPT !.error = "Error generating tweets"],
                        s1, s2, state.current_row,
                        << <<"status", "error">>,
                           <<"retry_count_generate", Str(current_retry + 1)>>,
                           <<"generate_ts", "now">> >>, c)
             ELSE Result(state, s1, s2, {}, c, TRUE)

\* store_tweets_node without its first two lines (the check of state['error']).
store_tweets_node_unguarded(state, s1, s2, sheetOk, handlerOk) ==
    IF state.tweets = 0
    THEN Result([state EXCEPT !.error = "No tweets to store"], s1, s2, {}, {}, FALSE)
    ELSE IF state.current_row.sheet # "Sheet1"
    THEN Result([state EXCEPT !.skipped = TRUE], s1, s2, {}, {}, FALSE)
    ELSE IF sheetOk
    THEN Wrote([state EXCEPT !.stored = TRUE], s1, s2, state.current_row,
               << <<"store_ts", "now">>, <<"tweets", "json">> >>, {})
    ELSE IF handlerOk
    THEN Wrote([state EXCEPT !.error = "Error storing tweets"], s1, s2,
               state.current_row,
               << <<"status", "error">>, <<"store_ts", "now">> >>, {})
    ELSE Result(state, s1, s2, {}, {}, TRUE)

store_tweets_node(state, s1, s2, sheetOk, handlerOk) ==
    IF state.error # NoError THEN Result(state, s1, s2, {}, {}, FALSE)
    ELSE IF state.tweets = 0
    THEN Result([state EXCEPT !.error = "No tweets to store"], s1, s2, {}, {}, FALSE)
    ELSE IF state.current_row.sheet # "Sheet1"
    THEN Result([state EXCEPT !.skipped = TRUE], s1, s2, {}, {}, FALSE)
    ELSE IF sheetOk
    THEN Wrote([state EXCEPT !.stored = TRUE], s1, s2, state.current_row,
               << <<"store_ts", "now">>, <<"tweets", "json">> >>, {})
    ELSE IF handlerOk
    THEN Wrote([state EXCEPT !.error = "Error storing tweets"], s1, s2,
               state.current_row,
               << <<"status", "error">>, <<"store_ts", "now">> >>, {})
    ELSE Result(state, s1, s2, {}, {}, TRUE)

(***************************************************************************)
(* post_to_twitter_node, post_to_bsky_node                                 *)
(***************************************************************************)
\* post_to_twitter_node returning posted also from its except block.
post_to_twitter_node_flagging_failure(state, s1, s2, tweetOk, sheetOk, handlerOk) ==
    IF state.error # NoError THEN Result(state, s1, s2, {}, {}, FALSE)
    ELSE IF state.tweets = 0
    THEN Result([state EXCEPT !.error = "No tweets available to post"],
                s1, s2, {}, {}, FALSE)
    ELSE IF state.current_row.sheet # "Sheet1"
    THEN Result([state EXCEPT !.skipped = TRUE], s1, s2, {}, {}, FALSE)
    ELSE LET c == {"twitter.post_tweet"}
                  \cup (IF tweetOk THEN {} ELSE {"twitter.post_tweet failed"})
             current_retry ==
                 ParseRetry(RowGet(state.current_row, "retry_count_post_twitter", "0"))
         IN  IF sheetOk
             THEN Wrote([state EXCEPT !.posted = TRUE], s1, s2, state.current_row,
                        << <<"twitter_result", "success">>,
                           <<"retry_count_post_twitter", "0">> >>, c)
             ELSE IF handlerOk
             THEN Wrote([state EXCEPT !.error = "Error posting tweets", !.posted = TRUE],
                        s1, s2, state.current_row,
                        << <<"twitter_result", "error">>,
                           <<"retry_count_post_twitter", Str(current_retry + 1)>> >>, c)
             ELSE Result(state, s1, s2, {}, c, TRUE)

\* TwitterPlaywright.post_tweet returns False on a failure and never raises;
\* the node does not read what it returns.  tweetOk: every post_tweet call
\* returned True.
post_to_twitter_node(state, s1, s2, tweetOk, sheetOk, handlerOk) ==
    IF state.error # NoError THEN Result(state, s1, s2, {}, {}, FALSE)
    ELSE IF state.tweets = 0
    THEN Result([state EXCEPT !.error = "No tweets available to post"],
                s1, s2, {}, {}, FALSE)
    ELSE IF state.current_row.sheet # "Sheet1"
    THEN Result([state EXCEPT !.skipped = TRUE], s1, s2, {}, {}, FALSE)
    ELSE LET c == {"twitter.post_tweet"}
                  \cup (IF tweetOk THEN {} ELSE {"twitter.post_tweet failed"})
             current_retry ==
                 ParseRetry(RowGet(state.current_row, "retry_count_post_twitter", "0"))
         IN  IF sheetOk
             THEN Wrote([state EXCEPT !.posted = TRUE], s1, s2, state.current_row,
                        << <<"twitter_result", "success">>,
                           <<"retry_count_post_twitter", "0">> >>, c)
             ELSE IF handlerOk
             THEN Wrote([state EXCEPT !.error = "Error posting tweets"],
                        s1, s2, state.current_row,
                        << <<"twitter_result", "error">>,
                           <<"retry_count_post_twitter", Str(current_retry + 1)>> >>, c)
             ELSE Result(state, s1, s2, {}, c, TRUE)

\* BlueskyAPI.create_post raises on a failure (bskyOk = FALSE).
post_to_bsky_node(state, s1, s2, bskyOk, sheetOk, handlerOk) ==
    IF state.error # NoError THEN Result(state, s1, s2, {}, {}, FALSE)
    ELSE IF state.tweets = 0
    THEN Result([state EXCEPT !.error = "No tweets available to post to Bluesky"],
                s1, s2, {}, {}, FALSE)
    ELSE IF state.current_row.sheet # "Sheet1"
    THEN Result([state EXCEPT !.skipped = TRUE], s1, s2, {}, {}, FALSE)
    ELSE LET c == {"bsky.create_post"}
                  \cup (IF bskyOk THEN {} ELSE {"bsky.create_post failed"})
             current_retry ==
                 ParseRetry(RowGet(state.current_row, "retry_count_post_bsky", "0"))
         IN  IF bskyOk /\ sheetOk
             THEN Wrote([state EXCEPT !.posted_to_bsky = TRUE], s1, s2, state.current_row,
                        << <<"bsky_result", "success">>,
                           <<"retry_count_post_bsky", "0">> >>, c)
             ELSE IF handlerOk
             THEN Wrote([state EXCEPT !.error = "Error posting to Bluesky"],
                        s1, s2, state.current_row,
                        << <<"bsky_result", "error">>,
                           <<"retry_count_post_bsky", Str(current_retry + 1)>> >>, c)
             ELSE Result(state, s1, s2, {}, c, TRUE)

(***************************************************************************)
(* engage_posts_node, schedule_followups_node                              *)
(***************************************************************************)
\* search_and_like_tweets and search_and_like_blockchain never raise; liked is
\* whether they liked anything.  Both update_row calls of the node pass two
\* arguments (row id, updates).
engage_posts_node(state, s1, s2, liked) ==
    IF state.error # NoError THEN Result(state, s1, s2, {}, {}, FALSE)
    ELSE IF state.engagement_only \/ state.posted
    THEN LET c == {"twitter.search_and_like_tweets", "bsky.search_and_like_blockchain"}
                  \cup (IF liked THEN {"liked"} ELSE {})
         IN  IF state.current_row = NoRow
             THEN Result([state EXCEPT !.engaged = TRUE], s1, s2, {}, c, FALSE)
             ELSE IF UpdateRowAccepts(2)
             THEN LET w == update_row(s1, "Sheet1", state.current_row.id,
                                      << <<"engagement_ts", "now">>,
                                         <<"retry_count_engagement", "0">>,
                                         <<"status", "in_progress">> >>, 3)
                  IN  Result([state EXCEPT !.engaged = TRUE], w.sheet, s2, w.writes, c, FALSE)
             ELSE Result(state, s1, s2, {}, c, TRUE)
    ELSE Result(state, s1, s2, {}, {}, FALSE)

\* self.db is no attribute of WorkflowGraph: the try block raises at once, and
\* the update_row call of the except block passes two arguments.
schedule_followups_node(state, s1, s2) ==
    IF has_error(state) THEN Result(state, s1, s2, {}, {}, FALSE)
    ELSE IF ~state.engaged
    THEN Result([state EXCEPT !.error = "No posts were engaged with"],
                s1, s2, {}, {}, FALSE)
    ELSE IF state.current_row = NoRow THEN Result(state, s1, s2, {}, {}, TRUE)
    ELSE IF UpdateRowAccepts(2)
    THEN LET w == update_row(s1, "Sheet1", state.current_row.id,
                             << <<"status", "error">>,
                                <<"retry_count_followup", "1">>,
                                <<"followup_scheduled_ts", "now">> >>, 3)
         IN  Result([state EXCEPT !.error = "followups failed"], w.sheet, s2, w.writes,
                    {}, FALSE)
    ELSE Result(state, s1, s2, {}, {}, TRUE)

(***************************************************************************)
(* completion_node                                                         *)
(***************************************************************************)
\* {"end": True}
EndState == [EmptyState EXCEPT !.end = TRUE]

\* completion_node without its test of state.get('current_row'): the update of
\* the row is attempted whatever the state holds.
completion_node_unguarded(state, s1, s2, okCount) ==
    LET row_id == RowGet(state.current_row, "id", 0)
        status == IF state.error = NoError THEN "complete" ELSE "error"
        updates == << <<"status", status>>, <<"last_update_ts", "now">> >>
        w == update_row(s1, "Sheet1", row_id + 1, updates, okCount)
    IN  Result(EndState, w.sheet, s2, w.writes, {}, FALSE)

\* okCount: how many of the two update_cell calls of update_row succeed.
completion_node(state, s1, s2, okCount) ==
    IF state.current_row = NoRow THEN Result(EndState, s1, s2, {}, {}, FALSE)
    ELSE
    LET row_id == RowGet(state.current_row, "id", 0)
        sheet_name == RowGet(state.current_row, "sheet", "Sheet1")
        status == IF state.error = NoError THEN "complete" ELSE "error"
        updates == << <<"status", status>>, <<"last_update_ts", "now">> >>
        w == update_row(IF sheet_name = "Sheet1" THEN s1 ELSE s2,
                        sheet_name, row_id, updates, okCount)
        ret == IF w.raised THEN [EndState EXCEPT !.error = "update failed"] ELSE EndState
    IN  IF sheet_name = "Sheet1"
        THEN Result(ret, w.sheet, s2, w.writes, {}, FALSE)
        ELSE Result(ret, s1, w.sheet, w.writes, {}, FALSE)

(***************************************************************************)
(* The engine: one action per node.                                        *)
(***************************************************************************)
\* The engine ran `node`, which handed back r: the run ends with the exception
\* when the node raised, and goes on to a next node of the graph otherwise.
Finish(node, r) ==
    /\ sheet1' = r.sheet1
    /\ sheet2' = r.sheet2
    /\ st' = r.state
    /\ writes' = r.writes
    /\ calls' = r.calls
    /\ entry' = st
    /\ executed' = Append(executed, node)
    /\ IF r.raised THEN pc' = "raised" ELSE pc' \in NextNodes(node, r.state)
    /\ UNCHANGED <<run, retry, gen>>
    /\ UNCHANGED <<cvars, xvars>>

\* A scheduler cycle starts: graph.ainvoke({}).  An exception of the previous
\* cycle is caught by the loop, which goes on.
StartRun ==
    /\ pc \in {"idle", "END", "raised"}
    /\ run < MaxRuns
    /\ run' = run + 1
    /\ st' = EmptyState
    /\ entry' = EmptyState
    /\ pc' = "batch_retrieval"
    /\ executed' = <<>>
    /\ writes' = {}
    /\ calls' = {}
    /\ UNCHANGED <<sheet1, sheet2, retry, gen>>
    /\ UNCHANGED <<cvars, xvars>>

\* The outcomes of the writes are chosen for the rows the loops reach; the
\* Sheet2 inputs are chosen only when the Sheet1 part returns no row.
batch_retrieval ==
    /\ pc = "batch_retrieval"
    /\ LET todo1 == rows_to_process(pending_rows1(sheet1))
           todo2 == rows_to_process(pending_rows2(sheet2))
           none == [k \in {} |-> "ok"]
       IN  \/ Finish("batch_retrieval",
                     BatchRetrieval(st, sheet1, sheet2, FALSE, FALSE, none, none))
           \/ \E oc1 \in [1..Len(todo1) -> RowOutcomes] :
                LET a1 == ClaimRows([sheet |-> sheet1, valid |-> <<>>, writes |-> {}],
                                    todo1, oc1, 1, "Sheet1")
                IN  IF a1.valid # <<>>
                    THEN Finish("batch_retrieval",
                                BatchRetrieval(st, sheet1, sheet2, TRUE, TRUE, oc1, none))
                    ELSE \E read2 \in BOOLEAN :
                         \E oc2 \in [1..(IF read2 THEN Len(todo2) ELSE 0) -> RowOutcomes] :
                           Finish("batch_retrieval",
                                  BatchRetrieval(st, sheet1, sheet2, TRUE, read2, oc1, oc2))

extract_content ==
    /\ pc = "extract_content"
    /\ \E extractOk \in BOOLEAN, sheetOk \in BOOLEAN, handlerOk \in BOOLEAN :
         Finish("extract_content",
                extract_content_node(st, sheet1, sheet2, extractOk, sheetOk, handlerOk))

post_to_telegram ==
    /\ pc = "post_to_telegram"
    /\ \E out \in TelegramOutcomes :
         Finish("post_to_telegram", post_to_telegram_node(st, sheet1, sheet2, out))

generate_tweets ==
    /\ pc = "generate_tweets"
    /\ \E llmOk \in BOOLEAN, n \in {0, 1, TweetsAsked}, sheetOk \in BOOLEAN, handlerOk \in BOOLEAN :
         Finish("generate_tweets",
                generate_tweets_node(st, sheet1, sheet2, llmOk, n, sheetOk, handlerOk))

store_tweets ==
    /\ pc = "store_tweets"
    /\ \E sheetOk \in BOOLEAN, handlerOk \in BOOLEAN :
         Finish("store_tweets", store_tweets_node(st, sheet1, sheet2, sheetOk, handlerOk))

post_to_twitter ==
    /\ pc = "post_to_twitter"
    /\ \E tweetOk \in BOOLEAN, sheetOk \in BOOLEAN, handlerOk \in BOOLEAN :
         Finish("post_to_twitter",
                post_to_twitter_node(st, sheet1, sheet2, tweetOk, sheetOk, handlerOk))

post_to_bsky ==
    /\ pc = "post_to_bsky"
    /\ \E bskyOk \in BOOLEAN, sheetOk \in BOOLEAN, handlerOk \in BOOLEAN :
         Finish("post_to_bsky",
                post_to_bsky_node(st, sheet1, sheet2, bskyOk, sheetOk, handlerOk))

engage_posts ==
    /\ pc = "engage_posts"
    /\ \E liked \in BOOLEAN :
         Finish("engage_posts", engage_posts_node(st, sheet1, sheet2, liked))

schedule_followups ==
    /\ pc = "schedule_followups"
    /\ Finish("schedule_followups", schedule_followups_node(st, sheet1, sheet2))

completion ==
    /\ pc = "completion"
    /\ \E okCount \in 0..2 :
         Finish("completion", completion_node(st, sheet1, sheet2, okCount))

Next ==
    \/ StartRun
    \/ batch_retrieval
    \/ extract_content
    \/ post_to_telegram
    \/ generate_tweets
    \/ store_tweets
    \/ post_to_twitter
    \/ post_to_bsky
    \/ engage_posts
    \/ schedule_followups
    \/ completion

Spec == Init /\ [][Next]_vars

\* The scheduler cycles after the first MaxRuns, which are no longer counted:
\* the loop of run_workflow goes on as long as the process lives.
StartLaterRun ==
    /\ pc \in {"END", "raised"}
    /\ run >= MaxRuns
    /\ st' = EmptyState
    /\ entry' = EmptyState
    /\ pc' = "batch_retrieval"
    /\ executed' = <<>>
    /\ writes' = {}
    /\ calls' = {}
    /\ UNCHANGED <<sheet1, sheet2, run, retry, gen>>
    /\ UNCHANGED <<cvars, xvars>>

ForeverNext == Next \/ StartLaterRun

\* Spreadsheets with two or three rows waiting in Sheet1 and none in Sheet2.
ForeverInit ==
    /\ \E r4 \in ThirdRows1 :
         sheet1 = [i \in Rows1 |->
                     CASE i = 2 -> Row("https://example.com/a", "Pending", "")
                       [] i = 3 -> Row("https://example.com/a", "", "")
                       [] i = 4 -> r4
                       [] i = NRows1 + 2 -> BlankRow
                       [] OTHER -> DoneRow]
    /\ sheet2 = [i \in Rows2 |-> IF i = NRows2 + 2 THEN BlankRow ELSE DoneRow]
    /\ st = EmptyState
    /\ pc = "idle"
    /\ executed = <<>>
    /\ entry = EmptyState
    /\ writes = {}
    /\ calls = {}
    /\ run = 0
    /\ retry = NoRetry
    /\ gen = NoGen
    /\ ClientAtRest
    /\ OthersAtRest

\* The engine in a process that is never stopped: every node that is started
\* returns or raises, and the loop starts cycle after cycle.
ForeverSpec == ForeverInit /\ [][ForeverNext]_vars /\ WF_vars(ForeverNext)

(***************************************************************************)
(* MultiTwitterPlaywright: the session manager of the engagement tasks.    *)
(***************************************************************************)
\* What _init_browser meets: async_playwright().start() raises (nothing is
\* stored), launch_persistent_context raises (the new driver is stored, no
\* browser), new_page raises (the browser is stored, no page), the navigation
\* lands on the home page with a logged-in indicator (restored), or not.
InitOutcomes ==
    {"start_raises", "launch_raises", "new_page_raises", "restored", "no_session"}

\* What _login meets: it raises before the form is filled, the credentials are
\* submitted and the login check fails, or they are submitted and it passes.
LoginOutcomes == {"form_not_found", "rejected", "logged_in"}

Launched(m, a) ==
    [m EXCEPT !.playwright = a,
              !.browsers = @ \cup {a},
              !.launches[a] = Min(@ + 1, MaxLaunches)]

\* _init_browser(account_name): [mgr, ret].
init_browser(m, a, out) ==
    CASE out = "start_raises" -> [mgr |-> m, ret |-> FALSE]
      [] out = "launch_raises" -> [mgr |-> [m EXCEPT !.playwright = a], ret |-> FALSE]
      [] out = "new_page_raises" -> [mgr |-> Launched(m, a), ret |-> FALSE]
      [] out = "restored" ->
           [mgr |-> [Launched(m, a) EXCEPT !.pages = @ \cup {a},
                                           !.logged_in = @ \cup {a}],
            ret |-> TRUE]
      [] OTHER -> [mgr |-> [Launched(m, a) EXCEPT !.pages = @ \cup {a}], ret |-> TRUE]

\* _login(account_name): [mgr, ret, submitted].
login(m, a, out) ==
    IF a \notin m.pages \/ out = "form_not_found"
    THEN [mgr |-> m, ret |-> FALSE, submitted |-> FALSE]
    ELSE IF out = "rejected"
    THEN [mgr |-> m, ret |-> FALSE, submitted |-> TRUE]
    ELSE [mgr |-> [m EXCEPT !.logged_in = @ \cup {a}], ret |-> TRUE, submitted |-> TRUE]

\* ensure_logged_in with the test of self._logged_in left out: _login is driven
\* after every browser initialization that succeeds.
ensure_logged_in_always_logs_in(m, a, initOut, loginOut) ==
    LET fresh == a \notin m.browsers
        i == IF fresh THEN init_browser(m, a, initOut) ELSE [mgr |-> m, ret |-> TRUE]
        did == IF fresh THEN initOut ELSE "none"
    IN  IF ~i.ret
        THEN [mgr |-> i.mgr, ret |-> FALSE, submitted |-> FALSE, init |-> did]
        ELSE LET l == login(i.mgr, a, loginOut)
             IN  [mgr |-> l.mgr, ret |-> l.ret, submitted |-> l.submitted, init |-> did]

\* ensure_logged_in with the test of self.browsers left out: _init_browser runs
\* in every call.
ensure_logged_in_relaunching(m, a, initOut, loginOut) ==
    LET i == init_browser(m, a, initOut)
    IN  IF ~i.ret
        THEN [mgr |-> i.mgr, ret |-> FALSE, submitted |-> FALSE, init |-> initOut]
        ELSE IF a \in i.mgr.logged_in
        THEN [mgr |-> i.mgr, ret |-> TRUE, submitted |-> FALSE, init |-> initOut]
        ELSE LET l == login(i.mgr, a, loginOut)
             IN  [mgr |-> l.mgr, ret |-> l.ret, submitted |-> l.submitted,
                  init |-> initOut]

\* ensure_logged_in(account_name): [mgr, ret, submitted, init], init being what
\* _init_browser met ("none" when the browser was already launched).
ensure_logged_in(m, a, initOut, loginOut) ==
    LET fresh == a \notin m.browsers
        i == IF fresh THEN init_browser(m, a, initOut) ELSE [mgr |-> m, ret |-> TRUE]
        did == IF fresh THEN initOut ELSE "none"
    IN  IF ~i.ret
        THEN [mgr |-> i.mgr, ret |-> FALSE, submitted |-> FALSE, init |-> did]
        ELSE IF a \in i.mgr.logged_in
        THEN [mgr |-> i.mgr, ret |-> TRUE, submitted |-> FALSE, init |-> did]
        ELSE LET l == login(i.mgr, a, loginOut)
             IN  [mgr |-> l.mgr, ret |-> l.ret, submitted |-> l.submitted, init |-> did]

\* close_session(): closes every stored browser; the dictionaries keep their keys.
close_session(m) == [m EXCEPT !.closed = @ \cup m.browsers]

\* get_status(): self._logged_in.get(account_name, False) of every account.
get_status(m) == [a \in Accounts |-> a \in m.logged_in]

(***************************************************************************)
(* MultiTwitterPlaywright: post_tweet and search_and_like_tweets, and the  *)
(* manager exercised on its own, one operation after the other.            *)
(***************************************************************************)
\* max_retries of search_and_like_tweets.
SearchMaxRetries == 2

\* What post_tweet meets at the page once logged in.  Each is a page action.
PostOutcomes == {"goto_raises", "button_not_found", "posted"}

\* What one attempt of search_and_like_tweets meets at the page once logged in.
SearchOutcomes == {"search_failed", "no_like_buttons", "raises", "none_liked", "liked"}

\* What an operation hands back: the manager, the trace of the login checks
\* ("check_true", "check_false") and page actions ("act") of the call, what it
\* returned, and whether an exception left it.
OpResult(m, trace, ret) == [mgr |-> m, trace |-> trace, ret |-> ret, raised |-> FALSE]

\* post_tweet going on to the page whatever ensure_logged_in returned.
post_tweet_unchecked(m, a, initOut, loginOut, out) ==
    LET r == ensure_logged_in(m, a, initOut, loginOut)
        t == <<IF r.ret THEN "check_true" ELSE "check_false">>
    IN  IF a \notin r.mgr.pages THEN OpResult(r.mgr, t, FALSE)
        ELSE OpResult(r.mgr, t \o <<"act">>, out = "posted")

\* post_tweet(text, account_name)
post_tweet(m, a, initOut, loginOut, out) ==
    LET r == ensure_logged_in(m, a, initOut, loginOut)
    IN  IF ~r.ret THEN OpResult(r.mgr, <<"check_false">>, FALSE)
        ELSE IF a \notin r.mgr.pages THEN OpResult(r.mgr, <<"check_true">>, FALSE)
        ELSE OpResult(r.mgr, <<"check_true", "act">>, out = "posted")

\* search_and_like_tweets from attempt k on (k = attempt + 1); outs[k] is what
\* attempt k meets at the page.  initOut and loginOut are what _init_browser
\* and _login meet: they run at most once in a call, an attempt that went on to
\* the page leaving the account launched and logged in.
RECURSIVE SearchFrom(_, _, _, _, _, _, _)
SearchFrom(m, a, k, initOut, loginOut, outs, trace) ==
    LET r == ensure_logged_in(m, a, initOut, loginOut)
    IN  IF ~r.ret THEN OpResult(r.mgr, trace \o <<"check_false">>, FALSE)
        ELSE IF a \notin r.mgr.pages
        THEN OpResult(r.mgr, trace \o <<"check_true">>, FALSE)
        ELSE LET t == trace \o <<"check_true", "act">>
             IN  CASE outs[k] = "liked" -> OpResult(r.mgr, t, TRUE)
                   [] outs[k] = "none_liked" -> OpResult(r.mgr, t, FALSE)
                   [] OTHER ->
                        IF k - 1 < SearchMaxRetries - 1
                        THEN SearchFrom(r.mgr, a, k + 1, initOut, loginOut, outs, t)
                        ELSE OpResult(r.mgr, t, FALSE)

\* search_and_like_tweets(search_term, max_likes, account_name)
search_and_like_tweets(m, a, initOut, loginOut, outs) ==
    SearchFrom(m, a, 1, initOut, loginOut, outs, <<>>)

SessionInit ==
    /\ sheet1 = [i \in Rows1 |-> BlankRow]
    /\ sheet2 = [i \in Rows2 |-> BlankRow]
    /\ st = EmptyState /\ pc = "idle" /\ executed = <<>> /\ entry = EmptyState
    /\ writes = {} /\ calls = {} /\ run = 0 /\ retry = NoRetry /\ gen = NoGen
    /\ ClientAtRest
    /\ OthersAtRest

\* The operation `name` was called for account a and handed back r.
Called(name, a, r) ==
    /\ session' = [mgr |-> r.mgr, name |-> name, account |-> a, trace |-> r.trace,
                   ret |-> r.ret, raised |-> r.raised]
    /\ UNCHANGED <<pvars, cvars>>
    /\ UNCHANGED <<bsky, claim, ext>>

session_ensure_logged_in ==
    \E a \in Accounts, initOut \in InitOutcomes, loginOut \in LoginOutcomes :
        LET r == ensure_logged_in(session.mgr, a, initOut, loginOut)
        IN  Called("ensure_logged_in", a,
                   OpResult(r.mgr, <<IF r.ret THEN "check_true" ELSE "check_false">>,
                            r.ret))

session_post_tweet ==
    \E a \in Accounts, initOut \in InitOutcomes, loginOut \in LoginOutcomes,
       out \in PostOutcomes :
        Called("post_tweet", a, post_tweet(session.mgr, a, initOut, loginOut, out))

session_search_and_like_tweets ==
    \E a \in Accounts, initOut \in InitOutcomes, loginOut \in LoginOutcomes,
       outs \in [1..SearchMaxRetries -> SearchOutcomes] :
        Called("search_and_like_tweets", a,
               search_and_like_tweets(session.mgr, a, initOut, loginOut, outs))

session_close_session ==
    Called("close_session", "",
           OpResult(close_session(session.mgr), <<>>, FALSE))

SessionNext ==
    \/ session_ensure_logged_in
    \/ session_post_tweet
    \/ session_search_and_like_tweets
    \/ session_close_session

SessionSpec == SessionInit /\ [][SessionNext]_vars

(***************************************************************************)
(* MultiTwitterPlaywright._login, step by step at the page.                *)
(***************************************************************************)
\* What one strategy for a button meets: nothing to click, a button whose
\* click raises, or a button that is clicked.
StrategyOutcomes == {"not_found", "click_raises", "clicked"}

\* The trace entries of the four strategies and of the click, for the Next
\* button and for the Log in button: wait_for_selector on the data-testid
\* attribute, get_by_role, get_by_text, page.evaluate over the div buttons.
NextTags == <<"next_attribute", "next_role", "next_text", "next_scan", "click_next">>
LoginTags == <<"login_attribute", "login_role", "login_text", "login_scan", "click_login">>

\* The Log in button is modelled with fewer cases than the Next button.
NextButtonCases == [1..4 -> StrategyOutcomes]
LoginButtonCases ==
    { [k \in 1..4 |-> "not_found"],
      [k \in 1..4 |-> IF k = 1 THEN "clicked" ELSE "not_found"],
      [k \in 1..4 |-> IF k = 1 THEN "click_raises" ELSE "not_found"],
      [k \in 1..4 |-> IF k = 3 THEN "clicked" ELSE "not_found"] }

\* How the flow starts, and whether the password field shows after Next.
StartOutcomes == {"goto_raises", "no_username_input", "username_filled"}

\* The four try blocks for a button, from strategy k on: [trace, button],
\* button being whether the variable next_button / login_button is set after
\* them.  The first and the fourth strategy assign the variable before they
\* click, so it stays set when the click raises; the second and the third
\* assign it after the click.
RECURSIVE TryButton(_, _, _, _)
TryButton(outs, k, trace, tags) ==
    IF k > 4 THEN [trace |-> trace, button |-> FALSE]
    ELSE LET t == Append(trace, tags[k])
         IN  CASE outs[k] = "clicked" -> [trace |-> Append(t, tags[5]), button |-> TRUE]
               [] outs[k] = "click_raises" /\ k \in {1, 4} -> [trace |-> t, button |-> TRUE]
               [] OTHER -> TryButton(outs, k + 1, t, tags)

\* _login(account_name) with what it meets: start, next and login (one outcome
\* per strategy), password_visible, check (what check_login_status returns).
login_at_page(m, a, start, next, password_visible, login_button, check) ==
    IF a \notin m.pages THEN OpResult(m, <<>>, FALSE)
    ELSE IF start # "username_filled" THEN OpResult(m, <<"goto">>, FALSE)
    ELSE LET n == TryButton(next, 1, <<"goto", "fill_username">>, NextTags)
         IN  IF ~n.button \/ ~password_visible THEN OpResult(m, n.trace, FALSE)
             ELSE LET l == TryButton(login_button, 1, Append(n.trace, "fill_password"),
                                     LoginTags)
                  IN  IF ~l.button THEN OpResult(m, l.trace, FALSE)
                      ELSE IF check
                      THEN OpResult([m EXCEPT !.logged_in = @ \cup {a}],
                                    Append(l.trace, "check_true"), TRUE)
                      ELSE OpResult(m, Append(l.trace, "check_false"), FALSE)

\* _init_browser(account_name) called for an account without a browser.
login_init_browser ==
    \E a \in Accounts \ session.mgr.browsers, out \in InitOutcomes :
        LET i == init_browser(session.mgr, a, out)
        IN  Called("_init_browser", a, OpResult(i.mgr, <<>>, i.ret))

\* _login(account_name), which ensure_logged_in calls for an account that has a
\* browser and is not logged in.
login_call ==
    \E a \in session.mgr.browsers \ session.mgr.logged_in :
    \E start \in StartOutcomes, next \in NextButtonCases, password_visible \in BOOLEAN,
       login_button \in LoginButtonCases, check \in BOOLEAN :
        Called("_login", a,
               login_at_page(session.mgr, a, start, next, password_visible,
                             login_button, check))

LoginNext == login_init_browser \/ login_call

LoginSpec == SessionInit /\ [][LoginNext]_vars

(***************************************************************************)
(* MultiTwitterPlaywright.search_and_like_tweets, button by button.        *)
(***************************************************************************)
MaxButtons == 2
MaxLikesArg == 2

\* The aria-label values of the buttons of the model: a like button, two ways
\* a page labels the button of a tweet already liked, and another button.
AriaLabels == {"Like", "Unlike", "unlike", "Reply"}

\* The labels that mark a tweet as already liked.
LikedLabels == {"Unlike", "unlike"}

\* 'like' in aria_label.lower() or 'unlike' in aria_label.lower()
IsLikeButton(aria_label) == aria_label \in {"Like", "Unlike", "unlike"}

\* 'Unlike' in aria_label
SaysUnlike(aria_label) == aria_label = "Unlike"

\* What one attempt meets before it looks for buttons: both search approaches
\* fail, a page call raises, or the search page is reached.
AttemptOutcomes == {"search_failed", "raises", "searched"}

\* like_buttons[:max_likes]
FirstLikes(like_buttons, max_likes) ==
    SubSeq(like_buttons, 1, Min(max_likes, Len(like_buttons)))

\* The for loop over like_buttons[:max_likes] from button k on: the labels of
\* the buttons clicked.  click_ok[k]: button.click() returns (it raises
\* otherwise, and the loop goes on).
RECURSIVE LikeLoop(_, _, _, _)
LikeLoop(todo, click_ok, k, clicked) ==
    IF k > Len(todo) THEN clicked
    ELSE IF SaysUnlike(todo[k]) \/ ~click_ok[k]
    THEN LikeLoop(todo, click_ok, k + 1, clicked)
    ELSE LikeLoop(todo, click_ok, k + 1, Append(clicked, todo[k]))

\* search_and_like_tweets from attempt k on (k = attempt + 1).  buttons: the
\* aria-labels of what query_selector_all returns on the search page; the
\* trace holds "search" for every attempt that went to the page, then the
\* labels of the buttons clicked.
RECURSIVE LikeFrom(_, _, _, _, _, _, _, _, _, _)
LikeFrom(m, a, k, initOut, loginOut, atts, buttons, click_ok, max_likes, trace) ==
    LET r == ensure_logged_in(m, a, initOut, loginOut)
    IN  IF ~r.ret \/ a \notin r.mgr.pages THEN OpResult(r.mgr, trace, FALSE)
        ELSE LET t == Append(trace, "search")
                 like_buttons == SelectSeq(buttons, IsLikeButton)
                 again == IF k - 1 < SearchMaxRetries - 1
                          THEN LikeFrom(r.mgr, a, k + 1, initOut, loginOut, atts, buttons,
                                        click_ok, max_likes, t)
                          ELSE OpResult(r.mgr, t, FALSE)
             IN  IF atts[k] # "searched" \/ like_buttons = <<>> THEN again
                 ELSE LET clicked == LikeLoop(FirstLikes(like_buttons, max_likes),
                                              click_ok, 1, <<>>)
                      IN  OpResult(r.mgr, t \o clicked, Len(clicked) > 0)

\* search_and_like_tweets(search_term, max_likes, account_name) is called.
like_call ==
    \E a \in Accounts, initOut \in {"restored", "start_raises"}, loginOut \in {"logged_in"},
       atts \in [1..SearchMaxRetries -> AttemptOutcomes],
       n \in 0..MaxButtons, max_likes \in 0..MaxLikesArg :
    \E buttons \in [1..n -> AriaLabels], click_ok \in [1..MaxButtons -> BOOLEAN] :
        LET r == LikeFrom(session.mgr, a, 1, initOut, loginOut, atts, buttons, click_ok,
                          max_likes, <<>>)
        IN  /\ session' = [mgr |-> r.mgr, name |-> "search_and_like_tweets",
                           account |-> a, trace |-> r.trace, ret |-> r.ret,
                           raised |-> r.raised, max_likes |-> max_likes]
            /\ UNCHANGED <<pvars, cvars>>
            /\ UNCHANGED <<bsky, claim, ext>>

LikeNext == like_call

LikeSpec == SessionInit /\ [][LikeNext]_vars

(***************************************************************************)
(* BlueskyAPI (src/mcp_server/tools/bsky.py): create_post and like_post.   *)
(***************************************************************************)
MaxBskyCalls == 3

\* How the getSession test request of _ensure_session is answered.
TestAnswers == {"200", "401", "403", "500", "raises"}

\* How createSession is answered in _refresh_session.
RefreshAnswers == {"200", "401"}

\* The status the createRecord request is answered with.
CallStatuses == {200, 400, 401, 403, 500}

\* _ensure_session: [refreshes, ok].  A test request not answered 200 is
\* followed by _refresh_session inside the try; what that raises is caught by
\* the same except clause as a failed test request, which refreshes (again).
ensure_session(test, refresh1, refresh2) ==
    CASE test = "200" -> [refreshes |-> 0, ok |-> TRUE, last |-> "none"]
      [] test = "raises" -> [refreshes |-> 1, ok |-> refresh1 = "200", last |-> refresh1]
      [] OTHER ->
           IF refresh1 = "200" THEN [refreshes |-> 1, ok |-> TRUE, last |-> refresh1]
           ELSE [refreshes |-> 2, ok |-> refresh2 = "200", last |-> refresh2]

\* create_post / like_post: _ensure_session, then one createRecord request;
\* raise_for_status raises on every status but 200 and the except clauses
\* re-raise.
bsky_call(b, name, test, refresh1, refresh2, status) ==
    LET e == ensure_session(test, refresh1, refresh2)
        called == [b EXCEPT !.has_session = TRUE, !.name = name, !.test = test,
                            !.refresh = e.last,
                            !.refreshes_before = e.refreshes, !.refreshes_after = 0,
                            !.calls = Min(@ + 1, MaxBskyCalls)]
    IN  IF ~e.ok
        THEN [called EXCEPT !.status = 0, !.posts = 0, !.result = "raised"]
        ELSE [called EXCEPT !.access_jwt = (@ \/ e.refreshes > 0),
                            !.status = status, !.posts = 1,
                            !.result = IF status = 200 THEN "returned" ELSE "raised"]

BskyInit ==
    /\ sheet1 = [i \in Rows1 |-> BlankRow]
    /\ sheet2 = [i \in Rows2 |-> BlankRow]
    /\ st = EmptyState /\ pc = "idle" /\ executed = <<>> /\ entry = EmptyState
    /\ writes = {} /\ calls = {} /\ run = 0 /\ retry = NoRetry /\ gen = NoGen
    /\ ClientAtRest
    /\ OthersAtRest

BskyCalled(name) ==
    /\ \E test \in TestAnswers, refresh1 \in RefreshAnswers,
          refresh2 \in RefreshAnswers, status \in CallStatuses :
         bsky' = bsky_call(bsky, name, test, refresh1, refresh2, status)
    /\ UNCHANGED <<pvars, cvars>>
    /\ UNCHANGED <<session, claim, ext>>

create_post == BskyCalled("create_post")

like_post == BskyCalled("like_post")

BskyNext == create_post \/ like_post

BskySpec == BskyInit /\ [][BskyNext]_vars

(***************************************************************************)
(* batch_retrieval of two workflow processes on one spreadsheet (Sheet1).  *)
(* Every spreadsheet call is a step of its process: get_all_records, and   *)
(* the update_cell calls of one row.                                       *)
(***************************************************************************)
NClaimRows == 3

Processes == {1, 2}

\* A process before batch_retrieval: todo is rows_to_process still to visit,
\* read the rows it found pending with a url, returned its valid_rows, failed
\* the rows whose update_cell raised.
NewProcess == [pc |-> "get_all_records", todo |-> <<>>, read |-> {}, returned |-> {},
               failed |-> {}]

\* The rows of status '' or 'pending', in sheet order.
RECURSIVE PendingFrom(_, _)
PendingFrom(status, k) ==
    IF k > Len(status) THEN <<>>
    ELSE IF status[k] = "" \/ Lower(status[k]) = "pending"
    THEN <<k>> \o PendingFrom(status, k + 1)
    ELSE PendingFrom(status, k + 1)

\* pending_rows1[:self.M]
FirstM(rows) == SubSeq(rows, 1, Min(M, Len(rows)))

ClaimInit ==
    /\ sheet1 = [i \in Rows1 |-> BlankRow]
    /\ sheet2 = [i \in Rows2 |-> BlankRow]
    /\ st = EmptyState /\ pc = "idle" /\ executed = <<>> /\ entry = EmptyState
    /\ writes = {} /\ calls = {} /\ run = 0 /\ retry = NoRetry /\ gen = NoGen
    /\ ClientAtRest
    /\ session = NoSession /\ bsky = NoBsky /\ ext = NoExt
    /\ \E status \in [1..NClaimRows -> {"", "Pending", "complete"}],
          url \in [1..NClaimRows -> BOOLEAN] :
         claim = [status |-> status, url |-> url,
                  proc |-> [p \in Processes |-> NewProcess]]

ClaimStep(c) ==
    /\ claim' = c
    /\ UNCHANGED <<pvars, cvars>>
    /\ UNCHANGED <<session, bsky, ext>>

\* records1 = sheet1.get_all_records() and the list of pending rows.
claim_get_all_records(p) ==
    /\ claim.proc[p].pc = "get_all_records"
    /\ LET todo == FirstM(PendingFrom(claim.status, 1))
       IN  ClaimStep([claim EXCEPT
               !.proc[p].pc = "update_cell",
               !.proc[p].todo = todo,
               !.proc[p].read = {todo[k] : k \in {j \in 1..Len(todo) : claim.url[todo[j]]}}])

\* What marking row r does for process p, out being what the two update_cell
\* calls meet.
MarkRow(c, p, r, out) ==
    CASE out = "first_raises" -> [c EXCEPT !.proc[p].failed = @ \cup {r}]
      [] out = "second_raises" ->
           [c EXCEPT !.status[r] = "in_progress", !.proc[p].failed = @ \cup {r}]
      [] OTHER ->
           [c EXCEPT !.status[r] = "in_progress", !.proc[p].returned = @ \cup {r}]

\* One pass of the loop over rows_to_process that marks a row only when its
\* status is still pending (a compare-and-set on the claim).
claim_update_cell_compare_and_set(p) ==
    /\ claim.proc[p].pc = "update_cell"
    /\ claim.proc[p].todo # <<>>
    /\ LET r == Head(claim.proc[p].todo)
           c == [claim EXCEPT !.proc[p].todo = Tail(@)]
       IN  IF ~claim.url[r] \/ ~(claim.status[r] = "" \/ Lower(claim.status[r]) = "pending")
           THEN ClaimStep(c)
           ELSE \E out \in {"first_raises", "second_raises", "ok"} :
                    ClaimStep(MarkRow(c, p, r, out))

\* One pass of the loop over rows_to_process: a row without url is skipped, any
\* other is marked in_progress and appended to valid_rows; an update_cell that
\* raises skips the row.
claim_update_cell(p) ==
    /\ claim.proc[p].pc = "update_cell"
    /\ claim.proc[p].todo # <<>>
    /\ LET r == Head(claim.proc[p].todo)
           c == [claim EXCEPT !.proc[p].todo = Tail(@)]
       IN  IF ~claim.url[r]
           THEN ClaimStep(c)
           ELSE \E out \in {"first_raises", "second_raises", "ok"} :
                    ClaimStep(MarkRow(c, p, r, out))

\* The loop is over: batch_retrieval goes on with valid_rows.
claim_return(p) ==
    /\ claim.proc[p].pc = "update_cell"
    /\ claim.proc[p].todo = <<>>
    /\ ClaimStep([claim EXCEPT !.proc[p].pc = "returned"])

ClaimNext ==
    \E p \in Processes :
        \/ claim_get_all_records(p)
        \/ claim_update_cell(p)
        \/ claim_return(p)

ClaimSpec == ClaimInit /\ [][ClaimNext]_vars

(***************************************************************************)
(* ExtractContent.extract (src/mcp_server/tools/extract_content.py).       *)
(*                                                                         *)
(* A page is the sequence of its candidates in the order extract visits    *)
(* them: the elements the selectors match, the main element, the body; a   *)
(* candidate is the length of its whitespace-normalized text once the      *)
(* unwanted elements are removed.  extract returns the text of a candidate *)
(* (its position in the sequence) or the empty string (0).                 *)
(***************************************************************************)
MaxSelected == 2

\* if len(text) > 100
MinContentLength == 100

\* The lengths a candidate's text may have.
TextLengths == {0, MinContentLength, MinContentLength + 1}

\* A missing main element or body.
Absent == 0 - 1

\* Pages: up to MaxSelected elements matched by the selectors, then the main
\* element and the body, either of which may be absent.
Pages ==
    UNION { { sel \o <<m, b>> : sel \in [1..n -> TextLengths],
                                 m \in TextLengths \cup {Absent},
                                 b \in TextLengths \cup {Absent} } : n \in 0..MaxSelected }

\* The urls extract and try_extract are called with.
Urls == {"https://example.com/a", "example.com/a", "mailto:someone", "pending", ""}

\* What extract may meet: init_browser or new_page raises (no page exists),
\* the navigation raises on its last attempt, page.content() raises.
ExtractErrors == {"none", "no_page", "goto_raises", "content_raises"}

\* The first candidate at or after k whose text is longer than 100 characters,
\* 0 when there is none.
RECURSIVE FirstLongFrom(_, _)
FirstLongFrom(cands, k) ==
    IF k > Len(cands) THEN 0
    ELSE IF cands[k] > MinContentLength THEN k
    ELSE FirstLongFrom(cands, k + 1)

\* extract(url): [ret, raised].  The finally clause closes the page when one
\* was created; what page.close() raises leaves extract.
extract(url, cands, error, close_raises) ==
    IF ~is_valid_url(url) THEN [ret |-> 0, raised |-> FALSE]
    ELSE IF error = "no_page" THEN [ret |-> 0, raised |-> FALSE]
    ELSE IF close_raises THEN [ret |-> 0, raised |-> TRUE]
    ELSE IF error # "none" THEN [ret |-> 0, raised |-> FALSE]
    ELSE [ret |-> FirstLongFrom(cands, 1), raised |-> FALSE]

ExtInit ==
    /\ sheet1 = [i \in Rows1 |-> BlankRow]
    /\ sheet2 = [i \in Rows2 |-> BlankRow]
    /\ st = EmptyState /\ pc = "idle" /\ executed = <<>> /\ entry = EmptyState
    /\ writes = {} /\ calls = {} /\ run = 0 /\ retry = NoRetry /\ gen = NoGen
    /\ ClientAtRest
    /\ session = NoSession /\ bsky = NoBsky /\ claim = NoClaim
    /\ \E url \in Urls, cands \in Pages, error \in ExtractErrors,
          close_raises \in BOOLEAN :
         ext = [NoExt EXCEPT !.pc = "called", !.url = url, !.candidates = cands,
                             !.error = error, !.close_raises = close_raises]

extract_call ==
    /\ ext.pc = "called"
    /\ LET r == extract(ext.url, ext.candidates, ext.error, ext.close_raises)
       IN  ext' = [ext EXCEPT !.pc = "done", !.ret = r.ret, !.raised = r.raised]
    /\ UNCHANGED <<pvars, cvars>>
    /\ UNCHANGED <<session, bsky, claim>>

ExtNext == extract_call

ExtSpec == ExtInit /\ [][ExtNext]_vars

(***************************************************************************)
(* client.py: main, run_workflow and signal_handler.                       *)
(***************************************************************************)
\* No except in the loop body: the exception of a cycle leaves the loop.
AfterCycleExceptionLeavesLoop == "finally"

\* Where control goes when a cycle raises: the except of the loop body, which
\* sleeps and goes round again.
AfterCycleException == "error_sleep"

\* The places of run_workflow at which the event loop can run another task.
AwaitPoints ==
    {"ainvoke", "engage_primary", "engage_secondary", "linkedin", "wait",
     "error_sleep", "cleanup", "finally"}

\* The process is alive and its signal handlers are installed.
Alive == spc # "exited"

\* load_config() with main's except clause ending in sys.exit(0).
load_config_exiting_zero ==
    /\ spc = "load_config"
    /\ \E ok \in BOOLEAN :
         IF ok THEN spc' = "setup" /\ UNCHANGED exit_code
               ELSE spc' = "exited" /\ exit_code' = 0
    /\ UNCHANGED <<running, cycles, raising, global_twitter, close_task, close_calls,
                   mgr, attempt, last, stopped_at, last_cycle>>
    /\ UNCHANGED <<pvars, xvars>>

\* load_config(): a missing required variable raises, and main exits with 1.
load_config ==
    /\ spc = "load_config"
    /\ \E ok \in BOOLEAN :
         IF ok THEN spc' = "setup" /\ UNCHANGED exit_code
               ELSE spc' = "exited" /\ exit_code' = 1
    /\ UNCHANGED <<running, cycles, raising, global_twitter, close_task, close_calls,
                   mgr, attempt, last, stopped_at, last_cycle>>
    /\ UNCHANGED <<pvars, xvars>>

\* run_workflow up to the loop: the MCP session, the graph, global_twitter.
setup ==
    /\ spc = "setup"
    /\ \E ok \in BOOLEAN :
         IF ok THEN /\ global_twitter' = TRUE
                    /\ spc' = "loop_test"
                    /\ UNCHANGED raising
               ELSE /\ raising' = TRUE
                    /\ spc' = "finally"
                    /\ UNCHANGED global_twitter
    /\ UNCHANGED <<running, cycles, exit_code, close_task, close_calls, mgr, attempt, last, stopped_at, last_cycle>>
    /\ UNCHANGED <<pvars, xvars>>

\* The loop test with the flag left out: while True.
loop_test_ignoring_flag ==
    /\ spc = "loop_test"
    /\ spc' = "ainvoke"
    /\ cycles' = Min(cycles + 1, MaxCycles)
    /\ UNCHANGED <<running, exit_code, raising, global_twitter, close_task, close_calls,
                   mgr, attempt, last, stopped_at, last_cycle>>
    /\ UNCHANGED <<pvars, xvars>>

\* while running:
loop_test ==
    /\ spc = "loop_test"
    /\ IF running THEN spc' = "ainvoke" /\ cycles' = Min(cycles + 1, MaxCycles)
                  ELSE spc' = "cleanup" /\ UNCHANGED cycles
    /\ UNCHANGED <<running, exit_code, raising, global_twitter, close_task, close_calls,
                   mgr, attempt, last, stopped_at, last_cycle>>
    /\ UNCHANGED <<pvars, xvars>>

\* result = await graph.ainvoke({}): it returns, or a node raised out of it.
ainvoke ==
    /\ spc = "ainvoke"
    /\ \E raised \in BOOLEAN :
         /\ spc' = IF raised THEN AfterCycleException ELSE "engage_primary"
         /\ last_cycle' = IF raised THEN "raised" ELSE "returned"
    /\ attempt' = 1
    /\ UNCHANGED <<running, cycles, exit_code, raising, global_twitter, close_task,
                   close_calls, mgr, last, stopped_at>>
    /\ UNCHANGED <<pvars, xvars>>

\* One attempt of global_twitter.search_and_like_tweets(account_name = a): it
\* calls ensure_logged_in and never raises; a failed attempt is tried once more.
\* skip: the try block raised before the call (it is caught and logged).
Engage(a, then) ==
    \/ /\ \E initOut \in InitOutcomes, loginOut \in LoginOutcomes, again \in BOOLEAN :
            LET r == ensure_logged_in(mgr, a, initOut, loginOut)
            IN  /\ mgr' = r.mgr
                /\ last' = [account |-> a, init |-> r.init, ret |-> r.ret,
                            submitted |-> r.submitted]
                /\ IF again /\ r.ret /\ attempt = 1
                   THEN attempt' = 2 /\ UNCHANGED spc
                   ELSE attempt' = 1 /\ spc' = then
    \/ /\ a = "primary"
       /\ attempt = 1
       /\ spc' = "linkedin"
       /\ UNCHANGED <<mgr, attempt, last, stopped_at, last_cycle>>

engage_primary ==
    /\ spc = "engage_primary"
    /\ Engage("primary", "engage_secondary")
    /\ UNCHANGED <<running, cycles, exit_code, raising, global_twitter, close_task,
                   close_calls, stopped_at, last_cycle>>
    /\ UNCHANGED <<pvars, xvars>>

engage_secondary ==
    /\ spc = "engage_secondary"
    /\ Engage("secondary", "linkedin")
    /\ UNCHANGED <<running, cycles, exit_code, raising, global_twitter, close_task,
                   close_calls, stopped_at, last_cycle>>
    /\ UNCHANGED <<pvars, xvars>>

\* The LinkedIn engagement (its exceptions are caught and logged), then the log
\* lines up to the wait.
linkedin ==
    /\ spc = "linkedin"
    /\ spc' = "wait"
    /\ UNCHANGED <<running, cycles, exit_code, raising, global_twitter, close_task,
                   close_calls, mgr, attempt, last, stopped_at, last_cycle>>
    /\ UNCHANGED <<pvars, xvars>>

\* while running and datetime.now() < next_run: the wait ends when the time is
\* up or the flag is unset.
wait ==
    /\ spc = "wait"
    /\ spc' = "loop_test"
    /\ UNCHANGED <<running, cycles, exit_code, raising, global_twitter, close_task,
                   close_calls, mgr, attempt, last, stopped_at, last_cycle>>
    /\ UNCHANGED <<pvars, xvars>>

\* except Exception: log, await asyncio.sleep(60).
error_sleep ==
    /\ spc = "error_sleep"
    /\ spc' = "loop_test"
    /\ UNCHANGED <<running, cycles, exit_code, raising, global_twitter, close_task,
                   close_calls, mgr, attempt, last, stopped_at, last_cycle>>
    /\ UNCHANGED <<pvars, xvars>>

\* await workflow.cleanup(): it closes the pipeline's own Twitter session and
\* catches what that raises.
cleanup ==
    /\ spc = "cleanup"
    /\ spc' = "finally"
    /\ UNCHANGED <<running, cycles, exit_code, raising, global_twitter, close_task,
                   close_calls, mgr, attempt, last, stopped_at, last_cycle>>
    /\ UNCHANGED <<pvars, xvars>>

\* finally: close_session on global_twitter when it is set; then main exits,
\* with 1 when run_workflow raised and with 0 otherwise.  asyncio.run cancels
\* the tasks still pending.
finally ==
    /\ spc = "finally"
    /\ IF global_twitter
       THEN /\ mgr' = close_session(mgr)
            /\ close_calls' = Min(close_calls + 1, MaxCloses)
       ELSE UNCHANGED <<mgr, close_calls>>
    /\ exit_code' = IF raising THEN 1 ELSE 0
    /\ spc' = "exited"
    /\ close_task' = FALSE
    /\ UNCHANGED <<running, cycles, raising, global_twitter, attempt, last, stopped_at, last_cycle>>
    /\ UNCHANGED <<pvars, xvars>>

\* signal_handler(signum, frame): unsets the flag and, when global_twitter is
\* set, creates a task that closes the sessions.
signal_handler ==
    /\ Alive
    /\ running' = FALSE
    /\ close_task' = (close_task \/ global_twitter)
    /\ stopped_at' = IF running THEN spc ELSE stopped_at
    /\ UNCHANGED <<spc, cycles, exit_code, raising, global_twitter, close_calls, mgr,
                   attempt, last, last_cycle>>
    /\ UNCHANGED <<pvars, xvars>>

\* The event loop runs the task signal_handler created.
close_session_task ==
    /\ close_task
    /\ spc \in AwaitPoints
    /\ mgr' = close_session(mgr)
    /\ close_calls' = Min(close_calls + 1, MaxCloses)
    /\ close_task' = FALSE
    /\ UNCHANGED <<running, spc, cycles, exit_code, raising, global_twitter, attempt, last, stopped_at, last_cycle>>
    /\ UNCHANGED <<pvars, xvars>>

\* The pipeline, not run by this specification: its cycle is the ainvoke step.
PipelineAtRest ==
    /\ sheet1 = [i \in Rows1 |-> BlankRow]
    /\ sheet2 = [i \in Rows2 |-> BlankRow]
    /\ st = EmptyState
    /\ pc = "idle"
    /\ executed = <<>>
    /\ entry = EmptyState
    /\ writes = {}
    /\ calls = {}
    /\ run = 0
    /\ retry = NoRetry
    /\ gen = NoGen

ClientInit == PipelineAtRest /\ ClientAtRest /\ OthersAtRest

ClientNext ==
    \/ load_config
    \/ setup
    \/ loop_test
    \/ ainvoke
    \/ engage_primary
    \/ engage_secondary
    \/ linkedin
    \/ wait
    \/ error_sleep
    \/ cleanup
    \/ finally
    \/ signal_handler
    \/ close_session_task

ClientSpec == ClientInit /\ [][ClientNext]_vars

\* The scheduling of the event loop: the coroutine of run_workflow goes on
\* whenever it can; signals need not come.
ClientProgress ==
    \/ load_config
    \/ setup
    \/ loop_test
    \/ ainvoke
    \/ engage_primary
    \/ engage_secondary
    \/ linkedin
    \/ wait
    \/ error_sleep
    \/ cleanup
    \/ finally

ClientFairSpec == ClientSpec /\ WF_vars(ClientProgress)

(***************************************************************************)
(* common/retry_utils.py: retry_with_backoff(fn, max_retries, base_delay). *)
(***************************************************************************)
MaxRetriesArg == 3
JitterSteps == 2

\* max_retries=3: the default, and what extract_content_node passes.
DefaultMaxRetries == 3

\* What one call of fn does: it returns, raises an Exception, or raises
\* something that is no Exception (a cancellation).
FnOutcomes == {"returns", "raises", "cancelled"}

Pow2(k) == IF k = 0 THEN 1 ELSE IF k = 1 THEN 2 ELSE IF k = 2 THEN 4 ELSE 8

\* The delay without the backoff factor 2 ** attempt.
DelayWithoutBackoff(base_delay, k, jitter) == base_delay * JitterSteps + jitter

\* Delays are counted in units of 1/JitterSteps second:
\* base_delay * (2 ** attempt) + random.uniform(0, 1).
Delay(base_delay, k, jitter) == base_delay * Pow2(k) * JitterSteps + jitter

\* The call starts: attempt is the loop variable of range(max_retries).
RetryInit ==
    /\ sheet1 = [i \in Rows1 |-> BlankRow]
    /\ sheet2 = [i \in Rows2 |-> BlankRow]
    /\ st = EmptyState /\ pc = "idle" /\ executed = <<>> /\ entry = EmptyState
    /\ writes = {} /\ calls = {} /\ run = 0 /\ gen = NoGen
    /\ ClientAtRest
    /\ OthersAtRest
    /\ \E m \in 0..MaxRetriesArg, f \in [1..MaxRetriesArg -> FnOutcomes] :
         retry = [NoRetry EXCEPT !.max_retries = m, !.base_delay = 1, !.fn = f,
                                 !.pc = "call"]

\* The except clause raising on no attempt but going on to the next one.
NeverLastAttempt(k, max_retries) == FALSE

\* When the except clause raises: on the last attempt, attempt == max_retries - 1.
IsLastAttempt(k, max_retries) == k = max_retries - 1

\* return await fn(), and the except clause up to the delay.
retry_call ==
    /\ retry.pc = "call"
    /\ retry.attempt < retry.max_retries
    /\ LET k == retry.attempt + 1
           r == [retry EXCEPT !.calls = @ + 1]
       IN  retry' =
             CASE retry.fn[k] = "returns" ->
                    [r EXCEPT !.pc = "returned", !.result = [kind |-> "value", of |-> k]]
               [] retry.fn[k] = "cancelled" ->
                    [r EXCEPT !.pc = "raised", !.result = [kind |-> "cancelled", of |-> k]]
               [] OTHER ->
                    IF IsLastAttempt(retry.attempt, retry.max_retries)
                    THEN [r EXCEPT !.pc = "raised",
                                   !.result = [kind |-> "exception", of |-> k]]
                    ELSE [r EXCEPT !.pc = "sleep"]
    /\ UNCHANGED <<sheet1, sheet2, st, pc, executed, entry, writes, calls, run, gen>>
    /\ UNCHANGED <<cvars, xvars>>

\* await asyncio.sleep(delay), then the next attempt.
retry_sleep ==
    /\ retry.pc = "sleep"
    /\ \E jitter \in 0..JitterSteps :
         retry' = [retry EXCEPT
                     !.delays = Append(@, Delay(retry.base_delay, retry.attempt, jitter)),
                     !.attempt = @ + 1,
                     !.pc = "call"]
    /\ UNCHANGED <<sheet1, sheet2, st, pc, executed, entry, writes, calls, run, gen>>
    /\ UNCHANGED <<cvars, xvars>>

\* range(max_retries) is used up: the function falls off its end (None).
retry_falls_through ==
    /\ retry.pc = "call"
    /\ retry.attempt >= retry.max_retries
    /\ retry' = [retry EXCEPT !.pc = "returned", !.result = [kind |-> "None", of |-> 0]]
    /\ UNCHANGED <<sheet1, sheet2, st, pc, executed, entry, writes, calls, run, gen>>
    /\ UNCHANGED <<cvars, xvars>>

RetryNext == retry_call \/ retry_sleep \/ retry_falls_through

RetrySpec == RetryInit /\ [][RetryNext]_vars

(***************************************************************************)
(* extract_content_node: retry_with_backoff(try_extract, max_retries=3).   *)
(***************************************************************************)
\* max_retries of the call in extract_content_node.
ExtractMaxRetries == 3

\* What self.extractor.extract(url) returns: a text or the empty string.
ExtractorReturns == {"text", "empty"}

\* try_extract(): it raises for a url that is not valid, without calling the
\* extractor, and when the extractor returns no text.
try_extract(url, extracted) ==
    IF ~is_valid_url(url) THEN "raises"
    ELSE IF extracted = "empty" THEN "raises"
    ELSE "returns"

\* extract_content_node calls retry_with_backoff for the url of its row.
TryExtractInit ==
    /\ sheet1 = [i \in Rows1 |-> BlankRow]
    /\ sheet2 = [i \in Rows2 |-> BlankRow]
    /\ st = EmptyState /\ pc = "idle" /\ executed = <<>> /\ entry = EmptyState
    /\ writes = {} /\ calls = {} /\ run = 0 /\ gen = NoGen
    /\ ClientAtRest
    /\ session = NoSession /\ bsky = NoBsky /\ claim = NoClaim
    /\ \E url \in Urls, outs \in [1..ExtractMaxRetries -> ExtractorReturns] :
         /\ ext = [NoExt EXCEPT !.url = url]
         /\ retry = [NoRetry EXCEPT
                       !.max_retries = ExtractMaxRetries,
                       !.base_delay = 1,
                       !.fn = [k \in 1..ExtractMaxRetries |-> try_extract(url, outs[k])],
                       !.pc = "call"]

\* max_retries is 3: the loop of retry_with_backoff is never used up.
TryExtractNext == retry_call \/ retry_sleep

TryExtractSpec == TryExtractInit /\ [][TryExtractNext]_vars

(***************************************************************************)
(* generate_tweets_node: parsing the LLM response (lines 271-323).         *)
(*                                                                         *)
(* A response is a sequence of tokens, a token standing for a piece of the *)
(* string: the opening fence of a json code block (three backticks and    *)
(* 'json', seven characters), the closing fence (three backticks), a run   *)
(* of whitespace, a bracket, a JSON object {"text": "..."} with its text,  *)
(* another JSON value, or a word.  A word is a sequence of chunks, '#'     *)
(* always being a chunk of its own; a text is the sequence of its words.   *)
(***************************************************************************)
MaxArray == 3

Tok(t, text) == [t |-> t, text |-> text]

FENCE_JSON == Tok("fence_json", <<>>)
FENCE == Tok("fence", <<>>)
WS == Tok("ws", <<>>)
LB == Tok("[", <<>>)
RB == Tok("]", <<>>)
Number == Tok("42", <<>>)
ObjNoText == Tok("{\"tweet\": 1}", <<>>)
ObjTok(text) == Tok("obj", text)
WordTok(w) == Tok("word", <<w>>)

\* Texts of tweet objects: "gm", "gm #web3", "#defi #nft", "#", and "".
Texts ==
    { << <<"gm">> >>,
      << <<"gm">>, <<"#", "web3">> >>,
      << <<"#", "defi">>, <<"#", "nft">> >>,
      << <<"#">> >>,
      << >> }

\* What stands between the fences, or alone: JSON arrays of up to MaxArray
\* objects, other JSON, and plain text.
Bodies ==
    { <<LB>> \o [k \in 1..n |-> ObjTok(t)] \o <<RB>> : n \in 0..MaxArray, t \in Texts }
    \cup { <<LB, ObjTok(<< <<"gm">> >>), WS, ObjTok(<< <<"#", "defi">>, <<"#", "nft">> >>), RB>>,
           <<LB, ObjTok(<< <<"gm">> >>), Number, RB>>,
           <<LB, ObjNoText, RB>>,
           <<Number>>,
           <<ObjTok(<< <<"gm">>, <<"#", "web3">> >>)>>,
           <<>>,
           <<WS>>,
           <<WordTok(<<"gm">>)>>,
           <<WordTok(<<"gm">>), WS, WordTok(<<"#", "web3">>)>>,
           <<WordTok(<<"#", "defi">>), WS, WordTok(<<"gm">>), WS, WordTok(<<"#", "#", "nft">>)>>,
           <<WordTok(<<"#">>)>> }

Prefixes == { <<>>, <<FENCE_JSON>>, <<FENCE_JSON, WS>>, <<WS, FENCE_JSON, WS>> }

Suffixes == { <<>>, <<FENCE>>, <<WS, FENCE>>, <<WS, FENCE, WS>> }

Responses == { p \o b \o x : p \in Prefixes, b \in Bodies, x \in Suffixes }

\* response.startswith(<opening fence>), line 279
startswith_fence(r) == r # <<>> /\ r[1] = FENCE_JSON

\* response.endswith(<closing fence>), line 281
endswith_fence(r) == r # <<>> /\ r[Len(r)] = FENCE

\* response.strip()
RECURSIVE lstrip(_)
lstrip(r) == IF r # <<>> /\ Head(r) = WS THEN lstrip(Tail(r)) ELSE r

RECURSIVE rstrip(_)
rstrip(r) ==
    IF r # <<>> /\ r[Len(r)] = WS THEN rstrip(SubSeq(r, 1, Len(r) - 1)) ELSE r

strip(r) == rstrip(lstrip(r))

\* Lines 279-283: response[7:], response[:-3], response.strip().
strip_fence(response) ==
    LET r1 == IF startswith_fence(response) THEN Tail(response) ELSE response
        r2 == IF endswith_fence(r1) THEN SubSeq(r1, 1, Len(r1) - 1) ELSE r1
    IN  strip(r2)

\* json.loads(response): a list of values, another value, or JSONDecodeError.
json_loads(r) ==
    LET v == SelectSeq(r, LAMBDA t : t # WS)
        IsValue(t) == t.t \in {"obj", "42", "{\"tweet\": 1}"}
    IN  IF Len(v) = 1 /\ IsValue(v[1]) THEN [kind |-> "value", items |-> <<>>]
        ELSE IF /\ Len(v) >= 2 /\ v[1] = LB /\ v[Len(v)] = RB
                /\ \A k \in 2..(Len(v) - 1) : IsValue(v[k])
        THEN [kind |-> "list", items |-> SubSeq(v, 2, Len(v) - 1)]
        ELSE [kind |-> "JSONDecodeError", items |-> <<>>]

\* The words a token contributes to the string it stands in.
Surface(t) ==
    CASE t.t = "word" -> t.text
      [] t.t = "obj" ->
           IF t.text = <<>> THEN << <<"{\"text\":">>, <<"\"\"}">> >>
           ELSE IF Len(t.text) = 1
           THEN << <<"{\"text\":">>, <<"\"">> \o t.text[1] \o <<"\"}">> >>
           ELSE << <<"{\"text\":">>, <<"\"">> \o t.text[1] >>
                \o SubSeq(t.text, 2, Len(t.text) - 1)
                \o << t.text[Len(t.text)] \o <<"\"}">> >>
      [] OTHER -> << <<t.t>> >>

\* response.split(): tokens not parted by whitespace run into one word.
RECURSIVE SplitFrom(_, _, _)
SplitFrom(r, acc, glued) ==
    IF r = <<>> THEN acc
    ELSE IF Head(r) = WS THEN SplitFrom(Tail(r), acc, FALSE)
    ELSE LET sf == Surface(Head(r))
         IN  IF glued /\ acc # <<>>
             THEN SplitFrom(Tail(r),
                            SubSeq(acc, 1, Len(acc) - 1)
                              \o <<acc[Len(acc)] \o sf[1]>> \o Tail(sf),
                            TRUE)
             ELSE SplitFrom(Tail(r), acc \o sf, TRUE)

split(r) == SplitFrom(r, <<>>, FALSE)

\* The loop over words that keeps the '#' of a hashtag: hashtags.append(word).
hashtags_keeping_prefix(words) ==
    SelectSeq(words, LAMBDA w : w # <<>> /\ w[1] = "#")

\* for word in words: if word.startswith('#'): hashtags.append(word[1:])
hashtags_of(words) ==
    LET tagged == SelectSeq(words, LAMBDA w : w # <<>> /\ w[1] = "#")
    IN  [k \in 1..Len(tagged) |-> Tail(tagged[k])]

\* formatted_tweet for the i-th raw tweet.
formatted_tweet(i, text, words) ==
    [index |-> i, text |-> text, hashtags |-> hashtags_of(words)]

\* Lines 272-323: [raised, tweets].  An empty response, a list element that is
\* no object, and an object without 'text' raise into the node's except.
format_tweets(response) ==
    IF response = <<>> THEN [raised |-> TRUE, tweets |-> <<>>]
    ELSE
    LET r == strip_fence(response)
        j == json_loads(r)
    IN  CASE j.kind = "JSONDecodeError" ->
               [raised |-> FALSE, tweets |-> <<formatted_tweet(1, r, split(r))>>]
          [] j.kind = "value" ->
               [raised |-> FALSE, tweets |-> <<formatted_tweet(1, r, split(r))>>]
          [] OTHER ->
               IF \E k \in 1..Len(j.items) : j.items[k].t # "obj"
               THEN [raised |-> TRUE, tweets |-> <<>>]
               ELSE [raised |-> FALSE,
                     tweets |-> [k \in 1..Len(j.items) |->
                                   formatted_tweet(k, j.items[k].text, j.items[k].text)]]

GenInit ==
    /\ sheet1 = [i \in Rows1 |-> BlankRow]
    /\ sheet2 = [i \in Rows2 |-> BlankRow]
    /\ st = EmptyState /\ pc = "idle" /\ executed = <<>> /\ entry = EmptyState
    /\ writes = {} /\ calls = {} /\ run = 0 /\ retry = NoRetry
    /\ ClientAtRest
    /\ OthersAtRest
    /\ \E r \in Responses : gen = [NoGen EXCEPT !.response = r, !.pc = "parse"]

\* The try block of generate_tweets_node from the LLM response on, and its
\* except block.  sheetOk, handlerOk: as in generate_tweets_node.
generate_tweets_parse ==
    /\ gen.pc = "parse"
    /\ \E sheetOk \in BOOLEAN, handlerOk \in BOOLEAN :
         LET f == format_tweets(gen.response)
         IN  IF ~f.raised /\ sheetOk
             THEN gen' = [gen EXCEPT !.pc = "returned", !.tweets = f.tweets,
                                     !.wrote = {"generate_ts", "tweets"}]
             ELSE IF handlerOk
             THEN gen' = [gen EXCEPT !.pc = "returned", !.error = TRUE,
                                     !.wrote = {"status", "retry_count_generate",
                                                "generate_ts"}]
             ELSE gen' = [gen EXCEPT !.pc = "raised"]
    /\ UNCHANGED <<sheet1, sheet2, st, pc, executed, entry, writes, calls, run, retry>>
    /\ UNCHANGED <<cvars, xvars>>

GenNext == generate_tweets_parse

GenSpec == GenInit /\ [][GenNext]_vars

(***************************************************************************)
(* Properties.                                                             *)
(***************************************************************************)
Last(s) == s[Len(s)]

Ran(node) == \E k \in 1..Len(executed) : executed[k] = node

TimesRan(node) == Cardinality({k \in 1..Len(executed) : executed[k] = node})

\* The run is over: the graph reached END, or a node raised out of ainvoke.
RunOver == pc \in {"END", "raised"}

LastRan(node) == executed # <<>> /\ Last(executed) = node

Sheet(name) == IF name = "Sheet1" THEN sheet1 ELSE sheet2

\* Every stage up to Bluesky posting succeeded for a Sheet1 row in state s.
PostedEverywhere(s) ==
    /\ s.current_row.sheet = "Sheet1"
    /\ s.error = NoError
    /\ s.text /\ s.tweets > 0 /\ s.stored /\ s.posted /\ s.posted_to_bsky

\* C1: a run that extracted, generated, stored, posted to Twitter and Bluesky
\* and engaged for a pending Sheet1 row with a valid URL, all successfully, ends
\* with that row's status 'complete'.
C1_HappyPathEndsComplete ==
    ( /\ RunOver
      /\ PostedEverywhere(entry)
      /\ is_valid_url(entry.current_row.url)
      /\ entry.engaged \/ (LastRan("engage_posts") /\ "liked" \in calls) )
    => sheet1[entry.current_row.id].status = "complete"

\* The stages from extract_content through schedule_followups.
MiddleNodes == NodeSet \ {"batch_retrieval", "completion"}

\* C2: when a stage from extract_content through schedule_followups returns
\* a state with error set, the next stage the engine runs is completion.
C2_ErrorShortCircuit ==
    ( /\ executed # <<>>
      /\ Last(executed) \in MiddleNodes
      /\ pc # "raised"
      /\ has_error(st) )
    => pc = "completion"

\* C3: every run that is over has executed completion, exactly once, as its
\* last stage.
C3_CompletionOnceAndLast ==
    RunOver => /\ TimesRan("completion") = 1
               /\ Last(executed) = "completion"

\* C4: completion with a current_row writes status and last_update_ts to the
\* row current_row.id of the row's sheet, and to no other row.
C4_CompletionWritesCurrentRow ==
    ( /\ LastRan("completion")
      /\ entry.current_row # NoRow )
    => \A w \in writes : /\ w[1] = entry.current_row.sheet
                         /\ w[2] = entry.current_row.id
                         /\ w[3] \in {"status", "last_update_ts"}

\* C5: no stage raises out of the pipeline.
C5_NoStageRaises == pc # "raised"

\* The stages an engagement-only run skips.
ContentNodes ==
    {"extract_content", "post_to_telegram", "generate_tweets", "store_tweets",
     "post_to_twitter", "post_to_bsky"}

\* C6: when batch_retrieval returns engagement_only = true, its rows are
\* empty, the next stage run is engage_posts, and no content stage runs in
\* that run.
C6_EngagementOnlyBranch ==
    /\ st.engagement_only => st.rows = <<>>
    /\ (LastRan("batch_retrieval") /\ st.engagement_only) => pc = "engage_posts"
    /\ (st.engagement_only \/ entry.engagement_only)
         => \A n \in ContentNodes : ~Ran(n)

\* C7: batch_retrieval writes 'error' to every row it writes a status to whose
\* url is not a URL or is a status keyword, and returns no such row.
C7_InvalidUrlMarkedError ==
    LastRan("batch_retrieval") =>
      /\ \A k \in 1..Len(st.rows) : is_valid_url(st.rows[k].url)
      /\ \A w \in writes :
           (w[3] = "status" /\ ~is_valid_url(Sheet(w[1])[w[2]].url))
             => Sheet(w[1])[w[2]].status = "error"

\* The rows batch_retrieval marked: those it wrote the status column of.
Marked == {w \in writes : w[3] = COLUMNS[3]}

\* C8: one invocation of batch_retrieval marks at most M rows in_progress,
\* and every row it returns has status in_progress in its sheet.
C8_BatchMarksAtMostM ==
    LastRan("batch_retrieval") =>
      /\ Cardinality(Marked) <= M
      /\ \A k \in 1..Len(st.rows) :
           Sheet(st.rows[k].sheet)[st.rows[k].id].status = "in_progress"

\* C9: extraction of a Sheet1 row writes retry_count_content = 0 when it
\* succeeds and the row's prior spreadsheet value plus 1 when it fails (an
\* empty or non-numeric prior value counting as 0).
C9_RetryCountContent ==
    [][ ( /\ pc = "extract_content"
          /\ st.rows # <<>>
          /\ Head(st.rows).sheet = "Sheet1"
          /\ pc' # "raised" )
        => LET id == Head(st.rows).id
           IN  IF st'.error = NoError
               THEN sheet1'[id].rcc = "0"
               ELSE sheet1'[id].rcc = Str(ParseRetry(sheet1[id].rcc) + 1) ]_vars

\* C10: a stage after batch_retrieval other than completion that is entered
\* with error set returns the state unchanged, writes no cell, and makes no
\* LLM or platform call.
C10_ErrorStagesAreNoOps ==
    [][ ( /\ pc \in MiddleNodes
          /\ has_error(st) )
        => /\ st' = st
           /\ sheet1' = sheet1
           /\ sheet2' = sheet2
           /\ writes' = {}
           /\ calls' = {}
           /\ pc' # "raised" ]_vars

\* A stage ran that was entered with error set (the error came from storing).
C10_Witness ==
    /\ LastRan("post_to_twitter")
    /\ has_error(entry)
    /\ entry.tweets > 0

\* The outcomes of completion's spreadsheet calls (none, one or both succeed).
OkCounts == 0..2

\* C11: completion on a state with no current_row writes nothing to either
\* sheet and returns the end-of-run marker; invoked again on that same state
\* (or on the state it returned) it gives the same result and writes nothing.
C11_CompletionNoRowIsNoOp ==
    (pc = "completion" /\ st.current_row = NoRow) =>
      \A k1 \in OkCounts, k2 \in OkCounts :
        LET first == completion_node(st, sheet1, sheet2, k1)
            again == completion_node(st, first.sheet1, first.sheet2, k2)
            onEnd == completion_node(first.state, first.sheet1, first.sheet2, k2)
        IN  /\ first.state = EndState
            /\ first.writes = {}
            /\ first.sheet1 = sheet1 /\ first.sheet2 = sheet2
            /\ ~first.raised
            /\ again = first
            /\ onEnd = first

\* completion ran on a state with no current_row (an engagement-only run).
C11_Witness ==
    /\ LastRan("completion")
    /\ entry.current_row = NoRow
    /\ entry.engagement_only
    /\ st = EndState
    /\ writes = {}

\* C12: when posting a tweet to Twitter fails, post_to_twitter sets error,
\* writes twitter_result 'error' and the prior retry_count_post_twitter plus 1,
\* and neither sets posted nor writes 'success'; likewise post_to_bsky with
\* bsky_result and retry_count_post_bsky.
C12_PostFailureRecorded ==
    [][ /\ ( /\ pc = "post_to_twitter"
             /\ "twitter.post_tweet failed" \in calls'
             /\ pc' # "raised" )
           => LET id == st.current_row.id
              IN  /\ has_error(st')
                  /\ ~st'.posted
                  /\ sheet1'[id].twitter_result = "error"
                  /\ sheet1'[id].rc_twitter = Str(ParseRetry(sheet1[id].rc_twitter) + 1)
        /\ ( /\ pc = "post_to_bsky"
             /\ "bsky.create_post failed" \in calls'
             /\ pc' # "raised" )
           => LET id == st.current_row.id
              IN  /\ has_error(st')
                  /\ ~st'.posted_to_bsky
                  /\ sheet1'[id].bsky_result = "error"
                  /\ sheet1'[id].rc_bsky = Str(ParseRetry(sheet1[id].rc_bsky) + 1) ]_vars

WaitPoints == {"wait", "error_sleep"}

\* C14: when the shutdown flag is set while the loop waits between cycles, no
\* further cycle is started, the process comes to its end, and it has invoked
\* close_session on the session manager by then.
C14_ShutdownMidWait ==
    /\ [][ (stopped_at \in WaitPoints /\ spc # "ainvoke") => spc' # "ainvoke" ]_vars
    /\ []( (stopped_at \in WaitPoints /\ spc = "exited") => close_calls >= 1 )
    /\ (stopped_at \in WaitPoints) ~> (spc = "exited")

\* The flag was set during the wait after a cycle, and the process has ended
\* with the sessions closed.
C14_Witness ==
    /\ stopped_at = "wait"
    /\ spc = "exited"
    /\ cycles >= 1
    /\ close_calls >= 1

\* The places of run_workflow inside its loop.
InLoop ==
    {"loop_test", "ainvoke", "engage_primary", "engage_secondary", "linkedin",
     "wait", "error_sleep"}

\* C15: an exception raised inside a cycle does not end the scheduler loop:
\* while the shutdown flag is unset the loop is never left, and from every
\* place of a cycle (its except branch included) another cycle is started
\* unless the flag gets set.
C15_LoopSurvivesExceptions ==
    /\ [][ (spc \in InLoop /\ running) => spc' \in InLoop ]_vars
    /\ (spc \in InLoop /\ spc # "ainvoke") ~> (spc = "ainvoke" \/ ~running)
    /\ (spc = "error_sleep") ~> (spc = "ainvoke" \/ ~running)

\* A cycle was started after the cycle before it raised.
C15_Witness ==
    /\ spc = "ainvoke"
    /\ last_cycle = "raised"
    /\ running
    /\ cycles = MaxCycles

\* The call of retry_with_backoff is over.
RetryDone == retry.pc \in {"returned", "raised"}

\* The calls of fn made so far that raised an Exception.
FailedCalls == {k \in 1..retry.calls : retry.fn[k] = "raises"}

\* C16: retry_with_backoff calls the operation at most max_retries times;
\* when a call succeeds it returns that call's result and calls no more; when
\* max_retries calls in a row have failed it raises the failure of the last.
C16_RetryBounded ==
    /\ retry.calls <= retry.max_retries
    /\ retry.pc = "returned" /\ retry.result.kind = "value" =>
         /\ retry.result.of = retry.calls
         /\ retry.fn[retry.calls] = "returns"
         /\ \A k \in 1..(retry.calls - 1) : retry.fn[k] = "raises"
    /\ (retry.calls >= 1 /\ retry.fn[retry.calls] = "returns") =>
         /\ retry.pc = "returned"
         /\ retry.result = [kind |-> "value", of |-> retry.calls]
    /\ (retry.max_retries >= 1 /\ Cardinality(FailedCalls) = retry.max_retries
          /\ retry.pc # "sleep") =>
         /\ retry.pc = "raised"
         /\ retry.result = [kind |-> "exception", of |-> retry.max_retries]
    /\ (retry.pc = "raised" /\ retry.result.kind = "exception") =>
         /\ retry.calls = retry.max_retries
         /\ \A k \in 1..retry.calls : retry.fn[k] = "raises"

\* Three calls failed and the third failure was raised (the default bound).
C16_Witness ==
    /\ retry.max_retries = DefaultMaxRetries
    /\ retry.pc = "raised"
    /\ retry.calls = DefaultMaxRetries
    /\ retry.result = [kind |-> "exception", of |-> DefaultMaxRetries]
    /\ Len(retry.delays) = DefaultMaxRetries - 1

\* generate_tweets_node returned the state with tweets, its sheet writes done.
Generated == gen.pc = "returned" /\ ~gen.error

\* The objects of the array r holds between a json fence and a closing fence,
\* whitespace around and inside the fences allowed; <<>> otherwise.
FencedItems(r) ==
    LET s == strip(r)
        inner == IF Len(s) >= 2 THEN SubSeq(s, 2, Len(s) - 1) ELSE <<>>
        j == json_loads(inner)
    IN  IF /\ Len(s) >= 2 /\ s[1] = FENCE_JSON /\ s[Len(s)] = FENCE
           /\ j.kind = "list"
           /\ \A k \in 1..Len(j.items) : j.items[k].t = "obj"
        THEN j.items ELSE <<>>

IsFencedArray(r) ==
    LET s == strip(r)
    IN  /\ Len(s) >= 2 /\ s[1] = FENCE_JSON /\ s[Len(s)] = FENCE
        /\ json_loads(SubSeq(s, 2, Len(s) - 1)).kind = "list"
        /\ FencedItems(r) # <<>>

\* C17: when the response is a JSON array of n objects with a text field in a
\* json fence, generate_tweets yields exactly n tweets, in order, with index
\* 1..n, stores them in state.tweets and writes generate_ts.
C17_FencedArrayParsed ==
    (Generated /\ IsFencedArray(gen.response)) =>
        LET items == FencedItems(gen.response)
        IN  /\ Len(gen.tweets) = Len(items)
            /\ \A k \in 1..Len(items) :
                 gen.tweets[k].index = k /\ gen.tweets[k].text = items[k].text
            /\ "generate_ts" \in gen.wrote

\* The words of r that start with '#'.
Tagged(r) == SelectSeq(split(r), LAMBDA w : w # <<>> /\ w[1] = "#")

\* The tweet list is one tweet of index 1 and text r, whose hashtags are the
\* '#'-words of r in order, each without its first '#'.
OneFallbackTweet(r) ==
    /\ Len(gen.tweets) = 1
    /\ gen.tweets[1].index = 1
    /\ gen.tweets[1].text = r
    /\ [k \in 1..Len(gen.tweets[1].hashtags) |-> <<"#">> \o gen.tweets[1].hashtags[k]]
         = Tagged(r)

C19_TweetsWellFormed ==
    Generated =>
        \A k \in 1..Len(gen.tweets) :
            /\ gen.tweets[k].text # <<>>
            /\ (Tagged(gen.response) = <<>>) => Len(gen.tweets[k].hashtags) = 2

\* C20: for every account, when the browser initialization lands on an
\* authenticated view, the account is marked logged in and ensure_logged_in
\* returns true without submitting credentials; no later call of
\* ensure_logged_in for an account marked logged in submits them either.
C20_RestoredSessionSkipsLogin ==
    /\ [](last.init = "restored" =>
            /\ last.account \in mgr.logged_in
            /\ last.ret
            /\ ~last.submitted)
    /\ [][ \A a \in Accounts :
             (a \in mgr.logged_in /\ last' # last /\ last'.account = a) =>
                 (last'.ret /\ ~last'.submitted) ]_vars

C20_Witness ==
    /\ last.init = "restored"
    /\ last.account = "secondary"
    /\ last.ret
    /\ ~last.submitted
    /\ "secondary" \in mgr.logged_in
    /\ "primary" \notin mgr.logged_in

\* The operations of the session manager that act on a page.
PageOperations == {"post_tweet", "search_and_like_tweets"}

\* C21: post_tweet and search_and_like_tweets act on the page of an account
\* only after ensure_logged_in returned true in the same call; when it returns
\* false they return False at once, and they raise nothing.
C21_NoActionWithoutLogin ==
    session.name \in PageOperations =>
        /\ \A k \in 1..Len(session.trace) :
             session.trace[k] = "act" => (k > 1 /\ session.trace[k - 1] = "check_true")
        /\ \A k \in 1..Len(session.trace) :
             session.trace[k] = "check_false" =>
                 (k = Len(session.trace) /\ ~session.ret)
        /\ ~session.raised

C21_Witness ==
    /\ session.name = "search_and_like_tweets"
    /\ session.trace = <<"check_true", "act", "check_true", "act">>
    /\ session.ret

\* What the manager holds for account b: its browser context, its page, its
\* logged-in flag, and the driver its browser was launched under (self.playwright
\* refers to it as long as no later _init_browser replaced it).
Handles(m, b) ==
    [browser |-> b \in m.browsers,
     page |-> b \in m.pages,
     logged_in |-> b \in m.logged_in,
     closed |-> b \in m.closed,
     driver |-> b \in m.browsers /\ m.playwright = b]

\* C22: an operation on one account leaves unchanged every handle needed to
\* operate and later close the other account's session: its browser context,
\* its page, its logged-in flag and its driver handle.
C22_AccountIndependence ==
    [][ \A a \in Accounts, b \in Accounts :
          (a # b /\ session'.account = a /\ session'.name # "close_session") =>
              Handles(session'.mgr, b) = Handles(session.mgr, b) ]_vars

\* Where run_workflow stands when it calls search_and_like_tweets for a.
EngagePlace(a) == IF a = "primary" THEN "engage_primary" ELSE "engage_secondary"

\* C23: a session is created lazily and reused: no browser is launched for an
\* account before its first operation, ensure_logged_in on an account whose
\* browser is launched never launches another, and the loop closes no session
\* between cycles while the shutdown flag is unset.
C23_LazyReusedSessions ==
    /\ [](\A a \in Accounts :
            (mgr.launches[a] > 0 \/ a \in mgr.browsers) =>
                (global_twitter /\ cycles >= 1))
    /\ [][ \A a \in Accounts :
             mgr'.launches[a] # mgr.launches[a] =>
                 (spc = EngagePlace(a) /\ a \notin mgr.browsers) ]_vars
    /\ []((running /\ spc \in InLoop) => (close_calls = 0 /\ mgr.closed = {}))

C23_Witness ==
    /\ running
    /\ cycles = MaxCycles
    /\ spc = "engage_secondary"
    /\ last = [account |-> "primary", init |-> "none", ret |-> TRUE, submitted |-> FALSE]
    /\ mgr.launches["primary"] = 1
    /\ mgr.launches["secondary"] = 1
    /\ close_calls = 0

\* C27: the process exits with code 0 when the scheduler loop ends through a
\* shutdown signal, and with code 1 when a required environment variable is
\* missing at startup, in which case no workflow cycle is ever started.
C27_ExitCodes ==
    /\ []((spc = "exited" /\ stopped_at \in InLoop) => exit_code = 0)
    /\ [][ (spc = "load_config" /\ spc' = "exited") =>
              (exit_code' = 1 /\ cycles' = 0) ]_vars
    /\ [][ spc = "exited" => (spc' = "exited" /\ cycles' = cycles) ]_vars

C27_Witness ==
    /\ spc = "exited"
    /\ stopped_at = "wait"
    /\ cycles = 1
    /\ exit_code = 0

\* C24: when a create_post or like_post request is answered with 401 or 403,
\* the client refreshes its session and sends that request once more, exactly
\* once, before it reports the failure.
C24_RefreshAndRetryOnce ==
    (bsky.name \in {"create_post", "like_post"} /\ bsky.status \in {401, 403}) =>
        (bsky.refreshes_after = 1 /\ bsky.posts = 2)

\* The status and result columns of a row.
StatusColumns == {"status", "twitter_result", "bsky_result"}

\* C25: a stage execution that writes a status or result cell of a row also
\* writes the last_update_ts cell of that row.
C25_StatusWithTimestamp ==
    \A w \in writes :
        w[3] \in StatusColumns => <<w[1], w[2], "last_update_ts">> \in writes

\* C26: row claiming is unguarded across processes: a process marks and returns
\* every row it read as pending (unless the write raised), whatever another
\* process did to the row since; so both processes can return the same row.
C26_UnguardedClaim ==
    \A p \in DOMAIN claim.proc :
        claim.proc[p].pc = "returned" =>
            claim.proc[p].returned \cup claim.proc[p].failed = claim.proc[p].read

\* Both processes read the same row as pending, marked it and returned it.
C26_Witness ==
    /\ claim.proc # <<>>
    /\ \A p \in Processes : claim.proc[p].pc = "returned"
    /\ \E r \in 1..NClaimRows :
         /\ r \in claim.proc[1].read /\ r \in claim.proc[2].read
         /\ r \in claim.proc[1].returned /\ r \in claim.proc[2].returned
         /\ claim.status[r] = "in_progress"

\* C28: extract returns the text of the first candidate, in the order
\* selectors, main element, body, whose text is longer than 100 characters; it
\* returns the empty string when no candidate qualifies, when the URL is
\* invalid or when any error occurs, and it never raises.
C28_ExtractFirstLongCandidate ==
    ext.pc = "done" =>
        /\ ~ext.raised
        /\ (is_valid_url(ext.url) /\ ext.error = "none" /\ ~ext.close_raises) =>
             /\ ext.ret \in 0..Len(ext.candidates)
             /\ ext.ret > 0 => ext.candidates[ext.ret] > MinContentLength
             /\ \A k \in 1..Len(ext.candidates) :
                  (ext.candidates[k] > MinContentLength) => (ext.ret # 0 /\ ext.ret <= k)
        /\ (~is_valid_url(ext.url) \/ ext.error # "none" \/ ext.close_raises) =>
             ext.ret = 0

\* C29: a row whose url fails validation is marked error after a single
\* validation check, with no retry and no backoff delay.
C29_InvalidUrlFailsAtOnce ==
    (ext.pc = "idle" /\ ~is_valid_url(ext.url) /\ retry.pc # "idle") =>
        /\ retry.calls <= 1
        /\ retry.delays = <<>>
        /\ retry.pc \in {"call", "raised"}

\* C30: every row that batch_retrieval marks in_progress is eventually written
\* 'complete' or 'error', in the same or a later run.
C30_MarkedRowsFinish ==
    \A i \in Rows1 :
        (sheet1[i].status = "in_progress") ~> (sheet1[i].status \in {"complete", "error"})

\* C31: when the completion stage has run for a Sheet2 row whose content was
\* extracted and posted to Telegram, the state it received held no error and the
\* row's status is 'complete'.
C31_TelegramRowEndsComplete ==
    ( /\ pc = "END"
      /\ LastRan("completion")
      /\ entry.current_row.sheet = "Sheet2"
      /\ entry.text
      /\ entry.posted_to_telegram )
    => ( /\ entry.error = NoError
         /\ sheet2[entry.current_row.id].status = "complete" )

\* The least delay after failed attempt k (k = 0, 1, ...), in units of
\* 1/JitterSteps second: base_delay * 2^k seconds.
LeastDelay(k) == retry.base_delay * Pow2(k) * JitterSteps

\* The delays taken so far are within their bounds, and none follows the final
\* failed attempt.
DelaysBounded ==
    /\ \A i \in 1..Len(retry.delays) :
         /\ retry.delays[i] >= LeastDelay(i - 1)
         /\ retry.delays[i] <= LeastDelay(i - 1) + JitterSteps
    /\ Len(retry.delays) = retry.attempt
    /\ retry.attempt <= retry.calls
    /\ retry.max_retries >= 1 => Len(retry.delays) <= retry.max_retries - 1
    /\ (retry.pc = "raised" /\ retry.result.kind = "exception") =>
         Len(retry.delays) = retry.calls - 1

C33_ClosedMeansLoggedOut ==
    /\ session.name = "close_session" =>
         \A a \in Accounts : ~get_status(session.mgr)[a]
    /\ (session.name = "ensure_logged_in" /\ session.ret) =>
         session.account \notin session.mgr.closed

\* C34: after an ensure_logged_in whose browser initialization failed (the
\* account has no page), the next ensure_logged_in for that account runs the
\* initialization again, and logs the account in when it meets no failure.
C34_InitFailureNotSticky ==
    ( /\ session.name = "ensure_logged_in"
      /\ ~session.ret
      /\ session.account \notin session.mgr.pages )
    => LET next == ensure_logged_in(session.mgr, session.account, "restored", "logged_in")
       IN  next.init # "none" /\ next.ret

\* The success flags of a WorkflowState that the posting and engagement stages set.
SuccessFlags(s) ==
    {f \in {"stored", "posted", "posted_to_bsky", "engaged"} :
        CASE f = "stored" -> s.stored
          [] f = "posted" -> s.posted
          [] f = "posted_to_bsky" -> s.posted_to_bsky
          [] OTHER -> s.engaged}

\* C35: in every state of a run posted_to_bsky implies posted, posted implies
\* stored and a non-empty tweets list, engaged implies engagement_only or
\* posted, and a stage that returned with error set has set none of the flags.
C35_FlagsConsistent ==
    /\ st.posted_to_bsky => st.posted
    /\ st.posted => (st.stored /\ st.tweets > 0)
    /\ st.engaged => (st.engagement_only \/ st.posted)
    /\ st.error # NoError => SuccessFlags(st) \subseteq SuccessFlags(entry)

\* A Sheet1 row was stored and posted to Twitter and to Bluesky.
C35_Witness ==
    /\ LastRan("post_to_bsky")
    /\ st.error = NoError
    /\ st.current_row.sheet = "Sheet1"
    /\ st.tweets > 0 /\ st.stored /\ st.posted /\ st.posted_to_bsky

At(x) ==
    IF \E i \in 1..Len(session.trace) : session.trace[i] = x
    THEN CHOOSE i \in 1..Len(session.trace) : session.trace[i] = x
    ELSE 0

\* C37: in _login the password is filled only after the username was filled and
\* a Next-button strategy clicked the button; the strategies are tried in the
\* order attribute selector, role query, text query, DOM scan, each only after
\* the ones before it failed; when none clicked the button, _login returns
\* False, has not filled the password and has not marked the account logged in.
C37_PasswordAfterNext ==
    session.name = "_login" =>
        /\ At("fill_password") > 0 =>
             /\ At("fill_username") > 0
             /\ At("fill_username") < At("click_next")
             /\ At("click_next") < At("fill_password")
        /\ \A k \in 2..4 :
             At(NextTags[k]) > 0 =>
                (At(NextTags[k - 1]) > 0 /\ At(NextTags[k - 1]) < At(NextTags[k]))
        /\ (At("fill_username") > 0 /\ At("click_next") = 0) =>
             /\ ~session.ret
             /\ At("fill_password") = 0
             /\ session.account \notin session.mgr.logged_in

\* The labels of the buttons the last call clicked, and its search attempts.
Clicked == SelectSeq(session.trace, LAMBDA x : x # "search")

Searches == Len(session.trace) - Len(Clicked)

\* C38: a call of search_and_like_tweets clicks at most max_likes buttons,
\* clicks no button that is marked as already liked, searches at most twice,
\* and returns True exactly when it clicked at least one button.
C38_LikesBounded ==
    session.name = "search_and_like_tweets" =>
        /\ Len(Clicked) <= session.max_likes
        /\ \A k \in 1..Len(Clicked) : Clicked[k] \notin LikedLabels
        /\ Searches <= SearchMaxRetries
        /\ session.ret <=> Len(Clicked) > 0

=============================================================================
